---------------------------- MODULE Spec2Model ----------------------------
(***************************************************************************)
(* Model of the acoustic threat monitor's streaming controller             *)
(* (src/src/hooks/useAudioClassifier.ts) and of the component that feeds   *)
(* it prototypes (src/src/components/AudioClassifier.tsx).                 *)
(*                                                                         *)
(* Numbers.  Scores, similarities and volumes are integers in hundredths   *)
(* (0.75 is 75).  Embeddings have 5 components (1024 in the source) and    *)
(* unit vectors have Euclidean norm UNIT = 10, so the dot product of two    *)
(* unit vectors IS the cosine similarity in hundredths.  Floating point    *)
(* rounding is not modelled.                                               *)
(***************************************************************************)
EXTENDS Integers, Sequences, FiniteSets, TLC

\* ------------------------------------------------------------------------
\* Bounds of the model (scaled stand-ins and caps)
\* ------------------------------------------------------------------------
YAMNET_INPUT_SIZE == 4        \* window capacity W (15600 in the source), scaled
SAMPLES_PER_INFERENCE == 3    \* inference cadence (8000 in the source), scaled
MaxStarts == 2                \* startRecording invocations explored
MaxChunks == 1                \* chunk callbacks explored in the session
MaxFrames == 3                \* chunk callbacks explored in the buffer runs
MaxRuns == 2                  \* enrollPrototypes invocations explored
MaxTime == 9                  \* last clock reading explored
LOG_COOLDOWN == 2             \* logging cooldown (5000 ms in the source), scaled
BATCH_SIZE == 2               \* fetch batch (10 in the source), scaled
BUFFER_SIZE == 6              \* ScriptProcessor chunk (4096 in the source), scaled

\* ------------------------------------------------------------------------
\* Program constants
\* ------------------------------------------------------------------------
YAMNET_SAMPLE_RATE == 16000
VETO_STRONG_MIN == 20         \* falsePositiveScore > 0.2
VETO_PARTIAL_MIN == 50        \* falsePositiveScore > 0.5
VETO_PENALTY == 30            \* gunshotScore -= 0.3
CUSTOM_THRESHOLD == 75        \* maxSim > 0.75
TOP_K == 5                    \* allResults.slice(0, 5)
ONE == 100                    \* the score 1.0
DIST_FAR == 1                 \* volume 0.01
DIST_SPAN == 30               \* divisor 0.3
MONO_DRIFT_MIN == 5           \* volume > 0.05
ENERGY_MIN == 1               \* leftEnergy + rightEnergy > 0.001 (thousandths)
UNIT == 10                    \* norm of a normalised embedding

NULL == "null"

\* prototypes === null, and an enrolled set
NoPrototypes == [present |-> FALSE, gunshots |-> <<>>, chainsaws |-> <<>>]
Prototypes(gunshots, chainsaws) ==
  [present |-> TRUE, gunshots |-> gunshots, chainsaws |-> chainsaws]

Min(a, b) == IF a < b THEN a ELSE b
Max(a, b) == IF a > b THEN a ELSE b

\* ------------------------------------------------------------------------
\* Label taxonomy and the three label lists of the scorer
\* ------------------------------------------------------------------------
YAMNET_CLASSES ==
  <<"Speech", "Clapping", "Music", "Door", "Chainsaw", "Explosion",
    "Gunshot, gunfire">>
GUNSHOT_RELATED == {"Gunshot, gunfire", "Cap gun", "Fusillade", "Explosion"}
CHAINSAW_RELATED == {"Chainsaw"}
FALSE_POSITIVES ==
  {"Hands", "Finger snapping", "Clapping", "Knock", "Tap", "Slap, smack",
   "Whack, thwack", "Drum", "Snare drum", "Rimshot", "Door", "Slam",
   "Hammer", "Building", "Wood", "Chopping (food)"}

\* ------------------------------------------------------------------------
\* Embeddings
\* ------------------------------------------------------------------------
RECURSIVE SumTo(_, _, _)
SumTo(a, b, n) == IF n = 0 THEN 0 ELSE SumTo(a, b, n - 1) + a[n] * b[n]

\* dotProduct(a, b): sum over the components of a
dotProduct(a, b) == SumTo(a, b, Len(a))

\* Math.sqrt on the perfect squares the model's embeddings produce
Sqrt(s) == CHOOSE r \in 0..s : r * r <= s /\ (r + 1) * (r + 1) > s

\* liveEmbed normalised in place: divided by its norm unless the norm is 0
Normalize(v) ==
  LET norm == Sqrt(dotProduct(v, v))
  IN IF norm > 0 THEN [k \in 1..Len(v) |-> (v[k] * UNIT) \div norm] ELSE v

\* for (const proto of list) { sim = dot(...); if (sim > maxSim) maxSim = sim }
RECURSIVE MaxSimFrom(_, _, _, _)
MaxSimFrom(live, list, i, maxSim) ==
  IF i > Len(list) THEN maxSim
  ELSE LET sim == dotProduct(live, list[i])
       IN MaxSimFrom(live, list, i + 1, IF sim > maxSim THEN sim ELSE maxSim)

\* an acceptance test that lets the threshold itself through
AcceptSim_Weak(maxSim) == maxSim >= CUSTOM_THRESHOLD

\* acceptance test of one category: maxSim > 0.75
AcceptSim(maxSim) == maxSim > CUSTOM_THRESHOLD

\* a lookup without the emptiness guard whose running maximum starts at 1
CustomScore_StartsAtOne(live, list) ==
  LET maxSim == MaxSimFrom(live, list, 1, ONE)
  IN IF AcceptSim(maxSim) THEN maxSim ELSE 0

\* customGunshotScore / customChainsawScore of one category
CustomScore(live, list) ==
  IF Len(list) > 0
  THEN LET maxSim == MaxSimFrom(live, list, 1, -ONE)
       IN IF AcceptSim(maxSim) THEN maxSim ELSE 0
  ELSE 0

\* ------------------------------------------------------------------------
\* Hybrid scorer: the body of one inference cycle (tf.tidy callback)
\* ------------------------------------------------------------------------
\* a running score that adds up the related labels
Combine_Sum(running, score) == running + score

\* Math.max(running, score): the running score of a label list
Combine(running, score) == Max(running, score)

\* the aggregation loop over i < min(scores.length, YAMNET_CLASSES.length)
RECURSIVE AggregateFrom(_, _, _, _)
AggregateFrom(scores, i, limit, acc) ==
  IF i > limit THEN acc
  ELSE LET label == YAMNET_CLASSES[i]
           score == scores[i]
       IN AggregateFrom(scores, i + 1, limit,
            [gunshotScore |->
               IF label \in GUNSHOT_RELATED
               THEN Combine(acc.gunshotScore, score) ELSE acc.gunshotScore,
             chainsawScore |->
               IF label \in CHAINSAW_RELATED
               THEN Combine(acc.chainsawScore, score) ELSE acc.chainsawScore,
             falsePositiveScore |->
               IF label \in FALSE_POSITIVES
               THEN Combine(acc.falsePositiveScore, score)
               ELSE acc.falsePositiveScore,
             allResults |->
               IF label # ""
               THEN Append(acc.allResults, [label |-> label, score |-> score])
               ELSE acc.allResults])

Aggregate(scores) ==
  AggregateFrom(scores, 1, Min(Len(scores), Len(YAMNET_CLASSES)),
    [gunshotScore |-> 0, chainsawScore |-> 0, falsePositiveScore |-> 0,
     allResults |-> <<>>])

\* a veto whose strong case needs the mimic score strictly above the gunshot score
Veto_Strict(gunshotScore, falsePositiveScore) ==
  IF falsePositiveScore > VETO_STRONG_MIN /\ falsePositiveScore > gunshotScore
  THEN 0
  ELSE IF falsePositiveScore > VETO_PARTIAL_MIN
       THEN gunshotScore - VETO_PENALTY
       ELSE gunshotScore

\* a veto that tries the partial suppression first
Veto_PartialFirst(gunshotScore, falsePositiveScore) ==
  IF falsePositiveScore > VETO_PARTIAL_MIN
  THEN gunshotScore - VETO_PENALTY
  ELSE IF falsePositiveScore > VETO_STRONG_MIN
          /\ falsePositiveScore >= gunshotScore
       THEN 0
       ELSE gunshotScore

\* veto logic on the gunshot score
Veto(gunshotScore, falsePositiveScore) ==
  IF falsePositiveScore > VETO_STRONG_MIN /\ falsePositiveScore >= gunshotScore
  THEN 0
  ELSE IF falsePositiveScore > VETO_PARTIAL_MIN
       THEN gunshotScore - VETO_PENALTY
       ELSE gunshotScore

\* a fusion that ignores the prototype score
Boost_Off(custom, score) == score

\* if (custom > score) score = custom
Boost(custom, score) == IF custom > score THEN custom ELSE score

\* Math.min(Math.max(x, 0), 1.0)
Clamp01(x) == Min(Max(x, 0), ONE)

\* allResults.findIndex(r => r.label === label): 0 stands for -1
FindIndex(results, label) ==
  IF \E i \in 1..Len(results) : results[i].label = label
  THEN CHOOSE i \in 1..Len(results) :
         /\ results[i].label = label
         /\ \A j \in 1..(i - 1) : results[j].label # label
  ELSE 0

\* a relabelling test that never passes
IsVerified_Never(custom) == FALSE

\* the verified relabelling test of one category
IsVerified(custom) == custom > CUSTOM_THRESHOLD

\* overwrite the category entry's score and, if verified, its label
Relabel(results, label, score, custom, verifiedLabel) ==
  LET idx == FindIndex(results, label)
  IN IF idx = 0 THEN results
     ELSE [results EXCEPT ![idx] =
             [label |-> IF IsVerified(custom) THEN verifiedLabel ELSE label,
              score |-> score]]

\* allResults.sort((a, b) => b.score - a.score): stable, descending
RECURSIVE InsertDesc(_, _)
InsertDesc(sorted, r) ==
  IF sorted = <<>> THEN <<r>>
  ELSE IF Head(sorted).score >= r.score
       THEN <<Head(sorted)>> \o InsertDesc(Tail(sorted), r)
       ELSE <<r>> \o sorted

\* a ranking that leaves the entries in taxonomy order
SortDesc_Unsorted(rs) == rs

RECURSIVE SortDesc(_)
SortDesc(rs) ==
  IF rs = <<>> THEN <<>>
  ELSE InsertDesc(SortDesc(SubSeq(rs, 1, Len(rs) - 1)), rs[Len(rs)])

\* allResults.slice(0, 5)
TopResults(rs) == SubSeq(rs, 1, Min(TOP_K, Len(rs)))

\* prototype matching: both custom scores, 0 unless prototypes and an
\* embedding are present
Custom(protos, hasEmbed, embed) ==
  IF protos.present /\ hasEmbed
  THEN LET liveEmbed == Normalize(embed)
       IN [gunshot |-> CustomScore(liveEmbed, protos.gunshots),
           chainsaw |-> CustomScore(liveEmbed, protos.chainsaws)]
  ELSE [gunshot |-> 0, chainsaw |-> 0]

\* the locals of one inference cycle that has a scores tensor
Score(scores, hasEmbed, embed, protos) ==
  LET agg == Aggregate(scores)
      custom == Custom(protos, hasEmbed, embed)
      vetoed == Veto(agg.gunshotScore, agg.falsePositiveScore)
      gunshotScore == Clamp01(Boost(custom.gunshot, vetoed))
      chainsawScore == Clamp01(Boost(custom.chainsaw, agg.chainsawScore))
      r1 == Relabel(agg.allResults, "Gunshot, gunfire", gunshotScore,
                    custom.gunshot, "Gunshot (Verified)")
      r2 == Relabel(r1, "Chainsaw", chainsawScore, custom.chainsaw,
                    "Chainsaw (Verified)")
      sorted == SortDesc(r2)
  IN [heuristicGunshot |-> agg.gunshotScore,
      heuristicChainsaw |-> agg.chainsawScore,
      falsePositiveScore |-> agg.falsePositiveScore,
      vetoedGunshot |-> vetoed,
      vetoedChainsaw |-> agg.chainsawScore,
      customGunshotScore |-> custom.gunshot,
      customChainsawScore |-> custom.chainsaw,
      gunshotScore |-> gunshotScore,
      chainsawScore |-> chainsawScore,
      allResults |-> sorted]

\* ------------------------------------------------------------------------
\* Per-chunk signal processing
\* ------------------------------------------------------------------------
\* NaN: a reserved value outside every range of the model; the operators
\* below treat it as JavaScript does (comparisons with it are false)
NaN == 0 - 1000000

\* a resampler that truncates the output length instead of rounding it
downsampleBuffer_Truncating(buffer, sourceRate, targetRate) ==
  IF targetRate = sourceRate THEN buffer
  ELSE LET newLength == (Len(buffer) * targetRate) \div sourceRate
       IN [i \in 1..newLength |->
             LET index == ((i - 1) * sourceRate) \div targetRate
             IN IF index < Len(buffer) THEN buffer[index + 1] ELSE NaN]

\* downsampleBuffer(buffer, sourceRate, targetRate)
downsampleBuffer(buffer, sourceRate, targetRate) ==
  IF targetRate = sourceRate THEN buffer
  ELSE LET newLength ==
             (2 * Len(buffer) * targetRate + sourceRate) \div (2 * sourceRate)
       IN [i \in 1..newLength |->
             LET index == ((i - 1) * sourceRate) \div targetRate
             IN IF index < Len(buffer) THEN buffer[index + 1] ELSE NaN]

\* a distance that is not clamped
Distance_Unclamped(volume) ==
  IF volume = NaN THEN NaN ELSE ((volume - DIST_FAR) * ONE) \div DIST_SPAN

\* distance = Math.min(Math.max((volume - 0.01) / 0.3, 0), 1)
Distance(volume) ==
  IF volume = NaN THEN NaN
  ELSE Min(Max(((volume - DIST_FAR) * ONE) \div DIST_SPAN, 0), ONE)

\* direction: stereo panning, or the mono drift when sound is present
Direction(in) ==
  IF in.channels > 1
  THEN IF in.left + in.right > ENERGY_MIN
       THEN ((in.right - in.left) * ONE) \div (in.right + in.left)
       ELSE 0
  ELSE IF in.volume # NaN /\ in.volume > MONO_DRIFT_MIN THEN in.drift ELSE 0

Zeros(n) == [i \in 1..n |-> 0]

\* a buffer update that keeps the head of a long frame instead of its tail
NextBuffer_Head(audioRollingBuffer, downsampledData) ==
  LET m == Len(downsampledData)
      keepLength == YAMNET_INPUT_SIZE - m
  IN IF keepLength > 0
     THEN SubSeq(audioRollingBuffer, m + 1, YAMNET_INPUT_SIZE)
            \o downsampledData
     ELSE SubSeq(downsampledData, 1, YAMNET_INPUT_SIZE)

\* the new rolling buffer after a resampled frame
NextBuffer(audioRollingBuffer, downsampledData) ==
  LET m == Len(downsampledData)
      keepLength == YAMNET_INPUT_SIZE - m
  IN IF keepLength > 0
     THEN SubSeq(audioRollingBuffer, m + 1, YAMNET_INPUT_SIZE)
            \o downsampledData
     ELSE SubSeq(downsampledData, m - YAMNET_INPUT_SIZE + 1, m)

\* a trigger test that compares for equality
Triggers_Exact(samplesCaptured) == samplesCaptured = SAMPLES_PER_INFERENCE

\* samplesCaptured >= SAMPLES_PER_INFERENCE
Triggers(samplesCaptured) == samplesCaptured >= SAMPLES_PER_INFERENCE

\* a counter that carries the excess over the cadence into the next period
AfterTrigger_Carry(samplesCaptured) ==
  IF samplesCaptured >= SAMPLES_PER_INFERENCE
  THEN samplesCaptured - SAMPLES_PER_INFERENCE ELSE samplesCaptured

\* samplesCaptured after the trigger test
AfterTrigger(samplesCaptured) ==
  IF Triggers(samplesCaptured) THEN 0 ELSE samplesCaptured

\* ------------------------------------------------------------------------
\* State
\* ------------------------------------------------------------------------
VARIABLES
  state,            \* the published hook state (useState)
  modelPromiseRef,  \* 0 (null) or the id of the loader whose promise it holds
  modelRef,         \* TRUE once a model is stored in modelRef.current
  ctxState,         \* audioContextRef.current.state
  sampleRate,       \* audioContextRef.current.sampleRate
  streamRef,        \* 0 (null) or the start call whose stream it holds
  processorRef,     \* 0 (null) or the start call whose processor it holds
  analyserRef,      \* 0 (null) or the start call whose analyser it holds
  mountPc,          \* position of the eager-load effect (initTensorFlow)
  loaderPc,         \* position of each loader() operation
  loadsStarted,     \* loader() operations created so far
  call,             \* each startRecording invocation: position and closure
  callsMade,        \* startRecording invocations so far
  trackLive,        \* start call -> its stream's tracks are live
  proc,             \* start call -> its ScriptProcessorNode and handler closure
  prototypes,       \* AudioClassifier's prototypes state (the hook argument)
  tape,             \* scripted chunk inputs still to be delivered
  fed,              \* history: resampled samples fed to each processor
  rawCount,         \* history: raw samples delivered to each processor
  chunks,           \* history: chunk callbacks run so far
  stopped,          \* history: a stop request was made after the last start request
  thrown,           \* history: the last request threw out of its handler
  last,             \* history: the last operation and, for a chunk, its locals
  tl,               \* useTransferLearning instance -> its published state
  enroll,           \* useTransferLearning instance -> its enrollPrototypes run
  runsMade,         \* enrollPrototypes invocations so far
  auto,             \* useAutoEnrollment: loadDataset position and its state
  sensitivity,      \* AudioClassifier's sensitivity state
  threatDetected,   \* threatDetected of the last render
  history,          \* AudioClassifier's history state, newest entry first
  lastLogTimeRef,   \* lastLogTimeRef.current
  now               \* Date.now()

vars ==
  <<state, modelPromiseRef, modelRef, ctxState, sampleRate, streamRef,
    processorRef, analyserRef, mountPc, loaderPc, loadsStarted, call,
    callsMade, trackLive, proc, prototypes, tape, fed, rawCount, chunks,
    stopped, thrown, last, tl, enroll, runsMade, auto, sensitivity,
    threatDetected, history, lastLogTimeRef, now>>

\* the state of the enrollment hooks and of the incident log
enrollVars == <<tl, enroll, runsMade, auto>>
logVars == <<sensitivity, threatDetected, history, lastLogTimeRef, now>>

Calls == 1..MaxStarts
\* loadModel() is called once on mount and at most once per start request
Loaders == 1..(MaxStarts + 1)

NoProc ==
  [wired |-> FALSE, connected |-> FALSE,
   audioRollingBuffer |-> <<>>, samplesCaptured |-> 0]

NoCall == [pc |-> "new", awaiting |-> 0, prototypes |-> NoPrototypes]

\* the kind of the last operation: a stop request (and whether it follows
\* another one directly), a chunk callback (with its locals), or anything else
Op(name) == [op |-> name]

InitialState ==
  [isRecording |-> FALSE, isLoading |-> FALSE, error |-> NULL,
   results |-> <<>>, volume |-> 0, distance |-> 0, direction |-> 0]

\* the useTransferLearning instances: the one inside useAutoEnrollment and
\* the one of the training panel
AUTO_HOOK == 1
PANEL_HOOK == 2
Hooks == {AUTO_HOOK, PANEL_HOOK}

\* useState initial values of useTransferLearning
InitialEnrollState ==
  [isEnrolling |-> FALSE, progress |-> 0, error |-> NULL,
   prototypes |-> NoPrototypes]

NoDataset == [gunshots |-> <<>>, chainsaws |-> <<>>]

\* an enrollPrototypes invocation: its position and its local arrays
NoRun ==
  [pc |-> "idle", id |-> 0, dataset |-> NoDataset, category |-> "none",
   left |-> {}, gunshotEmbeddings |-> <<>>, chainsawEmbeddings |-> <<>>]

\* useState initial values of useAutoEnrollment and the loadDataset effect
InitialAuto ==
  [pc |-> "manifest", isLoadingManifest |-> TRUE, autoLoadError |-> NULL,
   fetchProgress |-> 0, fileList |-> <<>>, loadedFiles |-> <<>>, i |-> 0,
   seen |-> NoPrototypes]

InitEnrollment ==
  /\ tl = [h \in Hooks |-> InitialEnrollState]
  /\ enroll = [h \in Hooks |-> NoRun]
  /\ runsMade = 0
  /\ auto = InitialAuto

\* no result passes the threat test
NoThreat == [found |-> FALSE, label |-> "", score |-> 0]

INITIAL_SENSITIVITY == 30

\* the component right after mount: empty history, Date.now() far beyond
\* the cooldown
InitLog ==
  /\ sensitivity = INITIAL_SENSITIVITY
  /\ threatDetected = NoThreat
  /\ history = <<>>
  /\ lastLogTimeRef = 0
  /\ now = LOG_COOLDOWN + 1

SessionRates == {32000}

InitWith(rates, tapes, protos) ==
  /\ state = InitialState
  /\ modelPromiseRef = 0
  /\ modelRef = FALSE
  /\ ctxState \in {"suspended", "running"}
  /\ sampleRate \in rates
  /\ streamRef = 0
  /\ processorRef = 0
  /\ analyserRef = 0
  /\ mountPc = "init"
  /\ loaderPc = [l \in Loaders |-> "unused"]
  /\ loadsStarted = 0
  /\ call = [c \in Calls |-> NoCall]
  /\ callsMade = 0
  /\ trackLive = [c \in Calls |-> FALSE]
  /\ proc = [c \in Calls |-> NoProc]
  /\ prototypes \in protos
  /\ tape \in tapes
  /\ fed = [c \in Calls |-> <<>>]
  /\ rawCount = [c \in Calls |-> 0]
  /\ chunks = 0
  /\ stopped = FALSE
  /\ thrown = FALSE
  /\ last = Op("other")
  /\ InitEnrollment
  /\ InitLog

\* the hook and the component right after mount
Init == InitWith(SessionRates, {<<>>}, {NoPrototypes})

\* ------------------------------------------------------------------------
\* Model loading (loadModel and its loader)
\* ------------------------------------------------------------------------
LOAD_ERROR == "Failed to load model"
START_LOAD_ERROR == "Error: Failed to load model"
MIC_ERROR == "NotAllowedError: Permission denied"

\* a catch that leaves the loading flag set
FailedState_StillLoading(st, message) ==
  [st EXCEPT !.isRecording = FALSE, !.error = message]

\* the published state after the catch of startRecording
FailedState(st, message) ==
  [st EXCEPT !.isRecording = FALSE, !.isLoading = FALSE, !.error = message]

\* a loadModel() that never reuses the remembered promise
ReusesLoad_Never(ref) == FALSE

\* if (modelPromiseRef.current) return modelPromiseRef.current
ReusesLoad(ref) == ref # 0

\* the loader whose promise loadModel() returns
LoadModelResult ==
  IF ReusesLoad(modelPromiseRef) THEN modelPromiseRef ELSE loadsStarted + 1

\* loadModel(): reuse the remembered promise or start loader() and remember it
LoadModel ==
  IF ReusesLoad(modelPromiseRef)
  THEN UNCHANGED <<modelPromiseRef, loaderPc, loadsStarted>>
  ELSE /\ modelPromiseRef' = loadsStarted + 1
       /\ loaderPc' = [loaderPc EXCEPT ![loadsStarted + 1] = "cache"]
       /\ loadsStarted' = loadsStarted + 1

Waiters(l) ==
  {c \in Calls : call[c].pc = "awaitModel" /\ call[c].awaiting = l}

\* the awaiting startRecording calls continue: getUserMedia is requested
AfterResolve(l) ==
  [c \in Calls |->
     IF c \in Waiters(l) THEN [call[c] EXCEPT !.pc = "awaitMedia"] ELSE call[c]]

\* the awaiting startRecording calls fall into their catch
AfterReject(l) ==
  [c \in Calls |->
     IF c \in Waiters(l) THEN [call[c] EXCEPT !.pc = "failed"] ELSE call[c]]

\* initTensorFlow: backend ready, loadModel() called eagerly
MountInitOk ==
  /\ mountPc = "init"
  /\ mountPc' = "done"
  /\ LoadModel
  /\ last' = Op("other")
  /\ UNCHANGED <<state, modelRef, ctxState, sampleRate, streamRef,
                 processorRef, analyserRef, call, callsMade, trackLive, proc,
                 prototypes, tape, fed, rawCount, chunks, stopped, thrown>>
  /\ UNCHANGED <<enrollVars, logVars>>

\* initTensorFlow: tf.ready() rejects, the error is logged, nothing is loaded
MountInitFail ==
  /\ mountPc = "init"
  /\ mountPc' = "done"
  /\ last' = Op("other")
  /\ UNCHANGED <<state, modelPromiseRef, modelRef, ctxState, sampleRate,
                 streamRef, processorRef, analyserRef, loaderPc,
                 loadsStarted, call, callsMade, trackLive, proc, prototypes,
                 tape, fed, rawCount, chunks, stopped, thrown>>
  /\ UNCHANGED <<enrollVars, logVars>>

\* loader: the model comes from the IndexedDB cache
LoaderCacheHit(l) ==
  /\ loaderPc[l] = "cache"
  /\ modelRef' = TRUE
  /\ loaderPc' = [loaderPc EXCEPT ![l] = "resolved"]
  /\ call' = AfterResolve(l)
  /\ last' = Op("other")
  /\ UNCHANGED <<state, modelPromiseRef, ctxState, sampleRate, streamRef,
                 processorRef, analyserRef, mountPc, loadsStarted, callsMade,
                 trackLive, proc, prototypes, tape, fed, rawCount, chunks,
                 stopped, thrown>>
  /\ UNCHANGED <<enrollVars, logVars>>

\* loader: cache miss, the download starts
LoaderCacheMiss(l) ==
  /\ loaderPc[l] = "cache"
  /\ state' = [state EXCEPT !.isLoading = TRUE, !.error = NULL]
  /\ loaderPc' = [loaderPc EXCEPT ![l] = "download"]
  /\ last' = Op("other")
  /\ UNCHANGED <<modelPromiseRef, modelRef, ctxState, sampleRate, streamRef,
                 processorRef, analyserRef, mountPc, loadsStarted, call,
                 callsMade, trackLive, proc, prototypes, tape, fed, rawCount,
                 chunks, stopped, thrown>>
  /\ UNCHANGED <<enrollVars, logVars>>

\* loader: the cached model is read and stored in modelRef, but its warm-up
\* throws; the inner catch treats this as a cache miss and the download starts
LoaderCacheBroken(l) ==
  /\ loaderPc[l] = "cache"
  /\ modelRef' = TRUE
  /\ state' = [state EXCEPT !.isLoading = TRUE, !.error = NULL]
  /\ loaderPc' = [loaderPc EXCEPT ![l] = "download"]
  /\ last' = Op("other")
  /\ UNCHANGED <<modelPromiseRef, ctxState, sampleRate, streamRef,
                 processorRef, analyserRef, mountPc, loadsStarted, call,
                 callsMade, trackLive, proc, prototypes, tape, fed, rawCount,
                 chunks, stopped, thrown>>
  /\ UNCHANGED <<enrollVars, logVars>>

\* loader: downloaded and warmed up; the save to the cache starts
LoaderDownloadOk(l) ==
  /\ loaderPc[l] = "download"
  /\ modelRef' = TRUE
  /\ loaderPc' = [loaderPc EXCEPT ![l] = "save"]
  /\ last' = Op("other")
  /\ UNCHANGED <<state, modelPromiseRef, ctxState, sampleRate, streamRef,
                 processorRef, analyserRef, mountPc, loadsStarted, call,
                 callsMade, trackLive, proc, prototypes, tape, fed, rawCount,
                 chunks, stopped, thrown>>
  /\ UNCHANGED <<enrollVars, logVars>>

\* loader: the save attempt is over (its failure is only logged)
LoaderSaved(l) ==
  /\ loaderPc[l] = "save"
  /\ state' = [state EXCEPT !.isLoading = FALSE]
  /\ loaderPc' = [loaderPc EXCEPT ![l] = "resolved"]
  /\ call' = AfterResolve(l)
  /\ last' = Op("other")
  /\ UNCHANGED <<modelPromiseRef, modelRef, ctxState, sampleRate, streamRef,
                 processorRef, analyserRef, mountPc, loadsStarted, callsMade,
                 trackLive, proc, prototypes, tape, fed, rawCount, chunks,
                 stopped, thrown>>
  /\ UNCHANGED <<enrollVars, logVars>>

\* the remembered promise after a failed load
AfterLoadFailure(ref) == 0

\* loader: download or warm-up fails; the callers awaiting it then run
\* their own catch
LoaderDownloadFail(l) ==
  /\ loaderPc[l] = "download"
  /\ state' =
       IF Waiters(l) = {}
       THEN [state EXCEPT !.isLoading = FALSE, !.error = LOAD_ERROR]
       ELSE FailedState(state, START_LOAD_ERROR)
  /\ modelPromiseRef' = AfterLoadFailure(modelPromiseRef)
  /\ loaderPc' = [loaderPc EXCEPT ![l] = "rejected"]
  /\ call' = AfterReject(l)
  /\ last' = Op("other")
  /\ UNCHANGED <<modelRef, ctxState, sampleRate, streamRef, processorRef,
                 analyserRef, mountPc, loadsStarted, callsMade, trackLive,
                 proc, prototypes, tape, fed, rawCount, chunks, stopped,
                 thrown>>
  /\ UNCHANGED <<enrollVars, logVars>>

\* ------------------------------------------------------------------------
\* startRecording
\* ------------------------------------------------------------------------
\* wiring after the stream is there and the context runs: analyser,
\* processor with its handler closure, connections, and the final setState
Wire(c) ==
  /\ analyserRef' = c
  /\ processorRef' = c
  /\ proc' = [proc EXCEPT ![c] =
       [wired |-> TRUE, connected |-> TRUE,
        audioRollingBuffer |-> Zeros(YAMNET_INPUT_SIZE),
        samplesCaptured |-> 0]]
  /\ state' = [state EXCEPT !.isRecording = TRUE, !.isLoading = FALSE,
                            !.error = NULL, !.results = <<>>]
  /\ call' = [call EXCEPT ![c].pc = "done"]

\* the request: isLoading: true, then the model is taken from modelRef, or
\* the remembered promise is awaited, or loadModel() is called and awaited
StartRecording(c) ==
  /\ c = callsMade + 1
  /\ c \in Calls
  /\ callsMade' = c
  /\ state' = [state EXCEPT !.isLoading = TRUE]
  /\ IF modelRef
     THEN /\ call' = [call EXCEPT ![c] =
               [pc |-> "awaitMedia", awaiting |-> 0,
                prototypes |-> prototypes]]
          /\ UNCHANGED <<modelPromiseRef, loaderPc, loadsStarted>>
     ELSE IF modelPromiseRef # 0
          THEN /\ call' = [call EXCEPT ![c] =
                    [pc |-> "awaitModel", awaiting |-> modelPromiseRef,
                     prototypes |-> prototypes]]
               /\ UNCHANGED <<modelPromiseRef, loaderPc, loadsStarted>>
          ELSE /\ LoadModel
               /\ call' = [call EXCEPT ![c] =
                    [pc |-> "awaitModel", awaiting |-> LoadModelResult,
                     prototypes |-> prototypes]]
  /\ stopped' = FALSE
  /\ thrown' = FALSE
  /\ last' = Op("other")
  /\ UNCHANGED <<modelRef, ctxState, sampleRate, streamRef, processorRef,
                 analyserRef, mountPc, trackLive, proc, prototypes, tape,
                 fed, rawCount, chunks>>
  /\ UNCHANGED <<enrollVars, logVars>>

\* getUserMedia resolves: the stream is stored; a suspended context is
\* resumed first, a running one is wired at once
MediaGranted(c) ==
  /\ call[c].pc = "awaitMedia"
  /\ trackLive' = [trackLive EXCEPT ![c] = TRUE]
  /\ streamRef' = c
  /\ IF ctxState = "suspended"
     THEN /\ call' = [call EXCEPT ![c].pc = "awaitResume"]
          /\ UNCHANGED <<analyserRef, processorRef, proc, state>>
     ELSE Wire(c)
  /\ last' = Op("other")
  /\ UNCHANGED <<modelPromiseRef, modelRef, ctxState, sampleRate, mountPc,
                 loaderPc, loadsStarted, callsMade, prototypes, tape, fed,
                 rawCount, chunks, stopped, thrown>>
  /\ UNCHANGED <<enrollVars, logVars>>

\* getUserMedia rejects: the catch publishes the error
MediaDenied(c) ==
  /\ call[c].pc = "awaitMedia"
  /\ state' = FailedState(state, MIC_ERROR)
  /\ call' = [call EXCEPT ![c].pc = "failed"]
  /\ last' = Op("other")
  /\ UNCHANGED <<modelPromiseRef, modelRef, ctxState, sampleRate, streamRef,
                 processorRef, analyserRef, mountPc, loaderPc, loadsStarted,
                 callsMade, trackLive, proc, prototypes, tape, fed, rawCount,
                 chunks, stopped, thrown>>
  /\ UNCHANGED <<enrollVars, logVars>>

\* audioContext.resume() resolves
Resumed(c) ==
  /\ call[c].pc = "awaitResume"
  /\ ctxState' = "running"
  /\ Wire(c)
  /\ last' = Op("other")
  /\ UNCHANGED <<modelPromiseRef, modelRef, sampleRate, streamRef, mountPc,
                 loaderPc, loadsStarted, callsMade, trackLive, prototypes,
                 tape, fed, rawCount, chunks, stopped, thrown>>
  /\ UNCHANGED <<enrollVars, logVars>>

\* ------------------------------------------------------------------------
\* stopRecording
\* ------------------------------------------------------------------------
\* a release that is not guarded
HasRef_Always(ref) == TRUE

\* if (ref.current): the guard in front of each release
HasRef(ref) == ref # 0

\* a guard that lets a null reference through makes the release throw
StopThrows ==
  \/ HasRef(streamRef) /\ streamRef = 0
  \/ HasRef(processorRef) /\ processorRef = 0
  \/ HasRef(analyserRef) /\ analyserRef = 0

\* a stop that also empties the ranked list
StoppedState_Clearing(st) ==
  [st EXCEPT !.isRecording = FALSE, !.volume = 0, !.distance = 0,
             !.direction = 0, !.results = <<>>]

\* the published state after the final setState of stopRecording
StoppedState(st) ==
  [st EXCEPT !.isRecording = FALSE, !.volume = 0, !.distance = 0,
             !.direction = 0]

StopRecording ==
  /\ IF StopThrows
     THEN /\ thrown' = TRUE
          /\ UNCHANGED <<trackLive, streamRef, proc, processorRef, analyserRef,
                 ctxState, state>>
     ELSE /\ thrown' = FALSE
          /\ trackLive' =
               IF HasRef(streamRef)
               THEN [trackLive EXCEPT ![streamRef] = FALSE] ELSE trackLive
          /\ streamRef' = 0
          /\ proc' =
               IF HasRef(processorRef)
               THEN [proc EXCEPT ![processorRef].connected = FALSE] ELSE proc
          /\ processorRef' = 0
          /\ analyserRef' = 0
          /\ ctxState' = IF ctxState = "running" THEN "suspended" ELSE ctxState
          /\ state' = StoppedState(state)
  /\ stopped' = TRUE
  /\ last' = [op |-> "stop", again |-> last.op = "stop"]
  /\ UNCHANGED <<modelPromiseRef, modelRef, sampleRate, mountPc, loaderPc,
                 loadsStarted, call, callsMade, prototypes, tape, fed,
                 rawCount, chunks>>
  /\ UNCHANGED <<enrollVars, logVars>>

\* ------------------------------------------------------------------------
\* Prototype replacement (AudioClassifier: setPrototypes)
\* ------------------------------------------------------------------------
SetPrototypes(ps) ==
  /\ ps # prototypes
  /\ prototypes' = ps
  /\ last' = Op("other")
  /\ UNCHANGED <<state, modelPromiseRef, modelRef, ctxState, sampleRate,
                 streamRef, processorRef, analyserRef, mountPc, loaderPc,
                 loadsStarted, call, callsMade, trackLive, proc, tape, fed,
                 rawCount, chunks, stopped, thrown>>
  /\ UNCHANGED <<enrollVars, logVars>>

\* ------------------------------------------------------------------------
\* processor.onaudioprocess
\* ------------------------------------------------------------------------
NoLocals == [none |-> TRUE]

INFERENCE_ERROR == "Inference Error"

\* a cycle whose failure is published in the error field
AfterCycle_Surfaced(st, scored, top, volume, distance, direction) ==
  IF scored
  THEN [st EXCEPT !.results = top, !.volume = volume, !.distance = distance,
                  !.direction = direction, !.error = NULL]
  ELSE [st EXCEPT !.error = INFERENCE_ERROR]

\* a publish that leaves the error field as it was
AfterCycle_KeepsError(st, scored, top, volume, distance, direction) ==
  IF scored
  THEN [st EXCEPT !.results = top, !.volume = volume, !.distance = distance,
                  !.direction = direction]
  ELSE st

\* the published state after an inference cycle: the setState at the end of
\* the tidy callback, or nothing when there is no scores tensor or the cycle
\* threw into the catch
AfterCycle(st, scored, top, volume, distance, direction) ==
  IF scored
  THEN [st EXCEPT !.results = top, !.volume = volume, !.distance = distance,
                  !.direction = direction, !.error = NULL]
  ELSE st

\* the prototype set an inference cycle of processor p reads: the one its
\* startRecording closure captured
CyclePrototypes(p) == call[p].prototypes

\* e.inputBuffer.getChannelData(0): each sample carries its arrival number
InputData(p, in) == [i \in 1..in.n |-> rawCount[p] + i]

\* downsampleBuffer(inputData, audioContext.sampleRate, YAMNET_SAMPLE_RATE)
Downsampled(p, in) ==
  downsampleBuffer(InputData(p, in), sampleRate, YAMNET_SAMPLE_RATE)

\* one audio chunk delivered to the handler of processor p.  The raw samples
\* carry their arrival number as value; volume, channel energies, drift and
\* the model's output for the window are inputs.  A source whose tracks were
\* stopped delivers silence.
HandleChunk(p, in) ==
  /\ proc[p].connected
  /\ ctxState = "running"
  /\ LET heard == IF trackLive[p] THEN in
                  ELSE [in EXCEPT !.volume = 0, !.left = 0, !.right = 0]
         volume == IF in.n = 0 THEN NaN ELSE heard.volume
         distance == Distance(volume)
         direction == Direction([heard EXCEPT !.volume = volume])
         downsampledData == Downsampled(p, in)
         newBuffer == NextBuffer(proc[p].audioRollingBuffer, downsampledData)
         captured == proc[p].samplesCaptured + Len(downsampledData)
         inferred == Triggers(captured)
         scored == inferred /\ in.out.kind \in {"paired", "scores"}
         locals ==
           IF scored
           THEN Score(in.out.scores, in.out.kind = "paired", in.out.embed,
                      CyclePrototypes(p))
           ELSE NoLocals
     IN /\ proc' = [proc EXCEPT ![p].audioRollingBuffer = newBuffer,
                                ![p].samplesCaptured = AfterTrigger(captured)]
        /\ state' =
             IF inferred
             THEN AfterCycle(state, scored,
                             IF scored THEN TopResults(locals.allResults)
                             ELSE <<>>,
                             volume, distance, direction)
             ELSE [state EXCEPT !.volume = volume, !.distance = distance,
                                !.direction = direction]
        /\ last' = [op |-> "chunk", id |-> p, in |-> heard,
                    m |-> Len(downsampledData),
                    before |-> proc[p].samplesCaptured,
                    inferred |-> inferred, scored |-> scored,
                    wasRecording |-> state.isRecording,
                    locals |-> locals, used |-> CyclePrototypes(p)]
  /\ UNCHANGED <<modelPromiseRef, modelRef, ctxState, sampleRate, streamRef,
                 processorRef, analyserRef, mountPc, loaderPc, loadsStarted,
                 call, callsMade, trackLive, prototypes, stopped, thrown>>
  /\ UNCHANGED <<enrollVars, logVars>>

\* the callback together with the record of what was delivered and fed
OnAudioProcess(p, in) ==
  /\ HandleChunk(p, in)
  /\ chunks' = chunks + 1
  /\ rawCount' = [rawCount EXCEPT ![p] = rawCount[p] + in.n]
  /\ fed' = [fed EXCEPT ![p] = fed[p] \o Downsampled(p, in)]

\* ------------------------------------------------------------------------
\* Inputs
\* ------------------------------------------------------------------------
\* normalised embeddings: EA.EB = 75, EA.EC = 80, EA.ED = 85, EA.EZ = 0
EA == <<5, 5, 5, 5, 0>>
EB == <<5, 5, 5, 0, 5>>
EC == <<4, 4, 4, 4, 6>>
ED == <<5, 5, 4, 3, 5>>
EZ == <<0, 0, 0, 0, 10>>
\* raw model outputs that are not normalised
EA2 == <<10, 10, 10, 10, 0>>
E0 == <<0, 0, 0, 0, 0>>

PrototypeSets ==
  {Prototypes(<<EA>>, <<>>), Prototypes(<<>>, <<EC>>),
   Prototypes(<<EZ, EA>>, <<EB, EA>>)}

\* class scores in taxonomy order
Scores(speech, clap, door, chainsaw, explosion, gunshot) ==
  <<speech, clap, 30, door, chainsaw, explosion, gunshot>>

\* what model.predict gives for the window: scores and embeddings, scores
\* alone, no scores tensor, or an exception
Output(scores, embed) == [kind |-> "paired", scores |-> scores, embed |-> embed]
ScoresOnly(scores) == [kind |-> "scores", scores |-> scores, embed |-> <<>>]
NoScores == [kind |-> "none", scores |-> <<>>, embed |-> <<>>]
Throwing == [kind |-> "throws", scores |-> <<>>, embed |-> <<>>]

Chunk(n, volume, drift, out) ==
  [n |-> n, volume |-> volume, channels |-> 1, left |-> 0, right |-> 0,
   drift |-> drift, out |-> out]

Stereo(n, volume, left, right, out) ==
  [n |-> n, volume |-> volume, channels |-> 2, left |-> left,
   right |-> right, drift |-> 0, out |-> out]

QuietScores == Scores(95, 0, 0, 0, 0, 5)
GunScores == Scores(5, 10, 0, 0, 0, 90)

\* the chunk of a live session: a loud gunshot
SessionInputs ==
  {Chunk(BUFFER_SIZE, 60, 50, Output(GunScores, EA2))}

SessionPrototypeSets == {Prototypes(<<EA>>, <<>>)}

\* a chunk of the live session
SessionChunk(p, in) ==
  /\ chunks < MaxChunks
  /\ OnAudioProcess(p, in)
  /\ UNCHANGED tape

\* ------------------------------------------------------------------------
\* The session: every interleaving of mount, loads, starts, stops, chunks
\* and prototype replacements
\* ------------------------------------------------------------------------
Next ==
  \/ MountInitOk
  \/ MountInitFail
  \/ \E l \in Loaders : LoaderCacheHit(l)
  \/ \E l \in Loaders : LoaderCacheMiss(l)
  \/ \E l \in Loaders : LoaderCacheBroken(l)
  \/ \E l \in Loaders : LoaderDownloadOk(l)
  \/ \E l \in Loaders : LoaderSaved(l)
  \/ \E l \in Loaders : LoaderDownloadFail(l)
  \/ \E c \in Calls : StartRecording(c)
  \/ \E c \in Calls : MediaGranted(c)
  \/ \E c \in Calls : MediaDenied(c)
  \/ \E c \in Calls : Resumed(c)
  \/ StopRecording
  \/ \E ps \in SessionPrototypeSets : SetPrototypes(ps)
  \/ \E p \in Calls, in \in SessionInputs : SessionChunk(p, in)

Spec == Init /\ [][Next]_vars

\* ------------------------------------------------------------------------
\* One inference cycle on scripted inputs: a session is started on a
\* component whose prototypes are already set, and the chunk on the tape is
\* delivered to it
\* ------------------------------------------------------------------------
GunshotValues == {0, 20, 50, 60, 90}
MimicValues == {0, 10, 20, 21, 50, 51, 55, 60, 90}

ScoreVectors ==
  {Scores(speech, clap, 0, chainsaw, explosion, gunshot) :
     speech \in {5, 95}, clap \in MimicValues, chainsaw \in {0, 40, 80},
     explosion \in {0, 70}, gunshot \in GunshotValues}

Embeddings == {EA, EB, EC, ED, EZ, EA2, E0}

ScorerInputs ==
  {Chunk(BUFFER_SIZE, 16, 0, out) :
     out \in {Output(sc, e) : sc \in ScoreVectors, e \in Embeddings}
             \cup {ScoresOnly(sc) : sc \in ScoreVectors}
             \cup {NoScores, Throwing,
                   Output(<<40, 60>>, EA), Output(<<>>, EA)}}

\* full chunks, and chunks too short to trigger an inference
FeatureLengths == {2, BUFFER_SIZE}

FeatureInputs ==
  {Chunk(n, v, d, Output(GunScores, EA)) :
     n \in FeatureLengths, v \in {0, 1, 4, 5, 6, 16, 31, 60},
     d \in {-50, 0, 50}}
  \cup
  {Stereo(n, v, l, r, Output(QuietScores, EZ)) :
     n \in FeatureLengths, v \in {0, 16}, l \in {0, 1, 1000, 3000},
     r \in {0, 1000, 3000}}

CycleTapes == {<<in>> : in \in ScorerInputs \cup FeatureInputs}

InitCycle ==
  InitWith(SessionRates, CycleTapes, {NoPrototypes} \cup PrototypeSets)

TapeChunk(p) ==
  /\ tape # <<>>
  /\ OnAudioProcess(p, Head(tape))
  /\ tape' = Tail(tape)

NextCycle ==
  \/ StartRecording(1)
  \/ \E l \in Loaders : LoaderCacheHit(l)
  \/ MediaGranted(1)
  \/ Resumed(1)
  \/ TapeChunk(1)

SpecCycle == InitCycle /\ [][NextCycle]_vars

\* ------------------------------------------------------------------------
\* Chunks of every length at several device rates, with inference cycles
\* that succeed or throw
\* ------------------------------------------------------------------------
BufferRates == {8000, 16000, 32000, 44100, 48000}
ChunkLengths == 0..(YAMNET_INPUT_SIZE + 2)

InitBuffer == InitWith(BufferRates, {<<>>}, {NoPrototypes})

BufferOutputs == {ScoresOnly(QuietScores), Throwing}

BufferChunk(p, n, out) ==
  /\ chunks < MaxFrames
  /\ OnAudioProcess(p, Chunk(n, 16, 0, out))
  /\ UNCHANGED tape

BufferNext ==
  \/ StartRecording(1)
  \/ \E l \in Loaders : LoaderCacheHit(l)
  \/ MediaGranted(1)
  \/ Resumed(1)
  \/ \E n \in ChunkLengths, out \in BufferOutputs : BufferChunk(1, n, out)

SpecBuffer == InitBuffer /\ [][BufferNext]_vars

\* ------------------------------------------------------------------------
\* What the properties below read off a state
\* ------------------------------------------------------------------------
MaxOf(S) == CHOOSE x \in S : \A y \in S : y <= x

\* the largest score among the classes whose label is in labels, 0 if none
ScoreOf(scores, labels) ==
  MaxOf({0} \cup
        {scores[i] : i \in {j \in 1..Min(Len(scores), Len(YAMNET_CLASSES)) :
                              YAMNET_CLASSES[j] \in labels}})

\* the best similarity of the normalised live embedding to a category's
\* prototypes; -ONE when there is nothing to compare
BestSimilarity(out, protos, list) ==
  IF protos.present /\ out.kind = "paired" /\ Len(list) > 0
  THEN MaxOf({dotProduct(Normalize(out.embed), list[i]) : i \in 1..Len(list)})
  ELSE -ONE

\* the last step was a chunk callback whose inference cycle produced scores
Cycle == last.op = "chunk" /\ last.scored

BestGunshot == BestSimilarity(last.in.out, last.used, last.used.gunshots)
BestChainsaw == BestSimilarity(last.in.out, last.used, last.used.chainsaws)

Entries(results, label) ==
  {i \in 1..Len(results) : results[i].label = label}

\* fed samples preceded by the zeros of a fresh buffer, cut to the window
Recent(samples) ==
  LET all == Zeros(YAMNET_INPUT_SIZE) \o samples
  IN SubSeq(all, Len(all) - YAMNET_INPUT_SIZE + 1, Len(all))

Pending(l) == loaderPc[l] \in {"cache", "download", "save"}

PublishedZero ==
  state.volume = 0 /\ state.distance = 0 /\ state.direction = 0

\* ------------------------------------------------------------------------
\* C1: in every inference cycle, with g the gunshot heuristic and m the
\* largest mimic score, the veto gives 0 if m > 0.2 and m >= g, else g - 0.3
\* if m > 0.5, else g; (0.5, 0.6) gives 0, (0.9, 0.55) gives 0.6, (0.9, 0.1)
\* gives 0.9; the chainsaw score is not changed by the veto.
\* ------------------------------------------------------------------------
C1_Veto ==
  /\ Veto(50, 60) = 0
  /\ Veto(90, 55) = 60
  /\ Veto(90, 10) = 90
  /\ Cycle =>
       LET g == ScoreOf(last.in.out.scores, GUNSHOT_RELATED)
           m == ScoreOf(last.in.out.scores, FALSE_POSITIVES)
           c == ScoreOf(last.in.out.scores, CHAINSAW_RELATED)
       IN /\ last.locals.vetoedGunshot =
               (IF m > 20 /\ m >= g THEN 0 ELSE IF m > 50 THEN g - 30 ELSE g)
          /\ last.locals.vetoedChainsaw = c
          /\ BestChainsaw <= c => last.locals.chainsawScore = c

\* a cycle in which the mimic score equals the gunshot score (strong veto)
C1_Witness ==
  /\ Cycle
  /\ last.locals.heuristicGunshot = 90
  /\ last.locals.falsePositiveScore = 90
  /\ last.locals.vetoedGunshot = 0
  /\ last.locals.heuristicChainsaw = 80
  /\ last.locals.chainsawScore = 80

\* ------------------------------------------------------------------------
\* C2 as stated: the published category score is max(heuristic after veto,
\* best prototype similarity), clamped to [0, 1].
\* ------------------------------------------------------------------------
C2_AsStated ==
  Cycle =>
    /\ BestGunshot > -ONE =>
         last.locals.gunshotScore =
           Clamp01(Max(last.locals.vetoedGunshot, BestGunshot))
    /\ BestChainsaw > -ONE =>
         last.locals.chainsawScore =
           Clamp01(Max(last.locals.vetoedChainsaw, BestChainsaw))

\* ------------------------------------------------------------------------
\* C2, amended: the published category score is max(heuristic after veto, s)
\* clamped to [0, 1], where s is the best prototype similarity if that is
\* strictly above 0.75 and 0 otherwise (also 0 without prototypes for the
\* category or without an embedding).
\* ------------------------------------------------------------------------
C2_GatedFusion ==
  Cycle =>
    LET sg == IF BestGunshot > 75 THEN BestGunshot ELSE 0
        sc == IF BestChainsaw > 75 THEN BestChainsaw ELSE 0
    IN /\ last.locals.gunshotScore =
            Min(Max(Max(last.locals.vetoedGunshot, sg), 0), 100)
       /\ last.locals.chainsawScore =
            Min(Max(Max(last.locals.vetoedChainsaw, sc), 0), 100)

\* a cycle whose best gunshot similarity is exactly 0.75, above the heuristic
\* score, and is not published
C2_Witness ==
  /\ Cycle
  /\ BestGunshot = 75
  /\ last.locals.vetoedGunshot = 60
  /\ last.locals.gunshotScore = 60

\* ------------------------------------------------------------------------
\* C3: a category's entry carries the verified label exactly when the best
\* prototype similarity of the category is strictly above 0.75; when that
\* similarity also exceeds the heuristic score after veto, the entry's score
\* is the similarity.
\* ------------------------------------------------------------------------
C3_Verified ==
  Cycle =>
    LET all == last.locals.allResults
        top == state.results
    IN /\ Len(last.in.out.scores) >= Len(YAMNET_CLASSES) =>
            /\ Entries(all, "Gunshot (Verified)") # {} <=> BestGunshot > 75
            /\ Entries(all, "Gunshot, gunfire") # {} <=> ~(BestGunshot > 75)
            /\ Entries(all, "Chainsaw (Verified)") # {} <=> BestChainsaw > 75
            /\ Entries(all, "Chainsaw") # {} <=> ~(BestChainsaw > 75)
       /\ BestGunshot > 75 /\ BestGunshot > last.locals.vetoedGunshot =>
            \A i \in Entries(all, "Gunshot (Verified)") :
               all[i].score = BestGunshot
       /\ BestChainsaw > 75 /\ BestChainsaw > last.locals.vetoedChainsaw =>
            \A i \in Entries(all, "Chainsaw (Verified)") :
               all[i].score = BestChainsaw
       /\ top = SubSeq(all, 1, Len(top))

\* a cycle with heuristic 0.2 and similarity 0.8: published as verified with
\* score 0.8
C3_Witness ==
  /\ Cycle
  /\ last.locals.vetoedGunshot = 20
  /\ BestGunshot = 80
  /\ \E i \in 1..Len(state.results) :
       state.results[i] = [label |-> "Gunshot (Verified)", score |-> 80]

\* ------------------------------------------------------------------------
\* C4: after any sequence of chunk callbacks of a session the rolling buffer
\* has exactly YAMNET_INPUT_SIZE samples and holds the most recent resampled
\* samples in arrival order, preceded by zeros while fewer have been fed.
\* ------------------------------------------------------------------------
C4_RollingBuffer ==
  \A p \in Calls :
    proc[p].wired =>
      /\ Len(proc[p].audioRollingBuffer) = YAMNET_INPUT_SIZE
      /\ proc[p].audioRollingBuffer = Recent(fed[p])

\* a frame longer than the window arrives after earlier frames
C4_Witness ==
  /\ last.op = "chunk"
  /\ chunks >= 2
  /\ last.m > YAMNET_INPUT_SIZE
  /\ Len(fed[last.id]) > last.m

\* ------------------------------------------------------------------------
\* C5: a chunk callback adds the resampled frame length to the counter;
\* inference runs in it iff the counter is then >= SAMPLES_PER_INFERENCE, and
\* then the counter is reset to exactly 0; the counter is in
\* [0, SAMPLES_PER_INFERENCE) after every callback.
\* ------------------------------------------------------------------------
C5_Cadence ==
  /\ \A p \in Calls : proc[p].samplesCaptured \in 0..(SAMPLES_PER_INFERENCE - 1)
  /\ last.op = "chunk" =>
       /\ last.inferred <=> last.before + last.m >= SAMPLES_PER_INFERENCE
       /\ proc[last.id].samplesCaptured =
            (IF last.inferred THEN 0 ELSE last.before + last.m)

\* a callback that overshoots the cadence: the excess is dropped
C5_Witness ==
  /\ last.op = "chunk"
  /\ last.before > 0
  /\ last.before + last.m > SAMPLES_PER_INFERENCE
  /\ last.inferred
  /\ proc[last.id].samplesCaptured = 0

C7_HotSwap == Cycle => last.used = prototypes

\* ------------------------------------------------------------------------
\* C8: right after a stop request isRecording is false, volume, distance and
\* direction are 0, and no track acquired by an earlier start is live.
\* ------------------------------------------------------------------------
C8_Released ==
  last.op = "stop" =>
    /\ ~state.isRecording
    /\ PublishedZero
    /\ \A c \in Calls : ~trackLive[c]

\* ------------------------------------------------------------------------
\* C9: a stop request made while isRecording is false raises no error and
\* leaves isRecording false; a stop request directly after another leaves
\* the published state as it was.
\* ------------------------------------------------------------------------
C9_StopIdempotent ==
  [][last'.op = "stop" =>
       /\ ~state.isRecording => ~thrown' /\ ~state'.isRecording
       /\ last.op = "stop" => ~thrown' /\ state' = state]_vars

\* a stop request directly after another one
C9_Witness ==
  /\ last.op = "stop"
  /\ last.again
  /\ ~thrown
  /\ ~state.isRecording

\* ------------------------------------------------------------------------
\* C10: between a stop request and the next start request no chunk is
\* processed and volume, distance and direction stay 0; a chunk callback
\* never sets isRecording to true.
\* ------------------------------------------------------------------------
C10_StopIsFinal ==
  /\ stopped => last.op # "chunk" /\ PublishedZero
  /\ last.op = "chunk" /\ state.isRecording => last.wasRecording


\* ------------------------------------------------------------------------
\* C11: a start request whose model load or microphone request fails ends
\* with isRecording = false, isLoading = false and an error message; no
\* chunk is processed for it, and it is not retried: only a start request
\* (or the load on mount) starts a load.
\* ------------------------------------------------------------------------
C11_FailedStart ==
  [][/\ \A c \in Calls :
          call[c].pc # "failed" /\ call'[c].pc = "failed" =>
            ~state'.isRecording /\ ~state'.isLoading /\ state'.error # NULL
     /\ \A c \in Calls :
          call[c].pc = "failed" =>
            /\ call'[c] = call[c]
            /\ ~proc'[c].wired /\ rawCount'[c] = 0 /\ ~trackLive'[c]
     /\ loadsStarted' # loadsStarted =>
          callsMade' # callsMade \/ mountPc' # mountPc]_vars

\* one request failed on the model load, the next on the microphone
C11_Witness ==
  /\ call[1].pc = "failed"
  /\ call[1].awaiting = 1
  /\ loaderPc[1] = "rejected"
  /\ call[2].pc = "failed"
  /\ state.error = MIC_ERROR
  /\ ~state.isRecording
  /\ ~state.isLoading

\* ------------------------------------------------------------------------
\* C12: the remembered load is never a failed one; a start request made
\* after a load failed, with no load in flight and none succeeded, starts a
\* new load; once a load has succeeded no further load is started.
\* ------------------------------------------------------------------------
C12_RetryAfterFailure ==
  [][/\ modelPromiseRef' # 0 => loaderPc'[modelPromiseRef'] # "rejected"
     /\ (/\ callsMade' # callsMade
         /\ \E l \in Loaders : loaderPc[l] = "rejected"
         /\ \A l \in Loaders : ~Pending(l) /\ loaderPc[l] # "resolved")
        => loadsStarted' = loadsStarted + 1
     /\ (\E l \in Loaders : loaderPc[l] = "resolved") =>
          loadsStarted' = loadsStarted]_vars

\* ------------------------------------------------------------------------
\* C13: an inference cycle that throws leaves the published results,
\* isRecording and error as they were and the session connected, and
\* restarts the sample counter at 0: the next inference is attempted by the
\* callback in which SAMPLES_PER_INFERENCE further samples have accumulated.
\* ------------------------------------------------------------------------
C13_FailureConfined ==
  [][last'.op = "chunk" =>
       /\ last'.inferred <=>
            proc[last'.id].samplesCaptured + last'.m >= SAMPLES_PER_INFERENCE
       /\ last'.inferred /\ last'.in.out.kind = "throws" =>
            /\ state'.results = state.results
            /\ state'.isRecording = state.isRecording
            /\ state'.error = state.error
            /\ proc'[last'.id].connected
            /\ ctxState' = "running"
            /\ proc'[last'.id].samplesCaptured = 0]_vars

\* a cycle throws after an earlier cycle published results: they stay
C13_Witness ==
  /\ last.op = "chunk"
  /\ last.inferred
  /\ last.in.out.kind = "throws"
  /\ state.isRecording
  /\ state.results # <<>>
  /\ proc[last.id].samplesCaptured = 0

\* ------------------------------------------------------------------------
\* C14: in every published state results has at most 5 entries, each with a
\* score in [0, 1], distance is in [0, 1] and direction is in [-1, 1].
\* ------------------------------------------------------------------------
C14_Ranges ==
  /\ Len(state.results) <= 5
  /\ \A i \in 1..Len(state.results) : state.results[i].score \in 0..100
  /\ state.distance \in 0..100
  /\ state.direction \in (-100)..100

\* a loud chunk drifting left, published with five results
C14_Witness ==
  /\ last.op = "chunk"
  /\ Len(state.results) = 5
  /\ state.volume = 60
  /\ state.distance = 100
  /\ state.direction = -50

\* the taxonomy label an entry's label stands for
BaseLabel(label) ==
  IF label = "Gunshot (Verified)" THEN "Gunshot, gunfire"
  ELSE IF label = "Chainsaw (Verified)" THEN "Chainsaw"
  ELSE label

\* the score the claim gives taxonomy entry i of a cycle
EntryScore(i) ==
  IF YAMNET_CLASSES[i] = "Gunshot, gunfire" THEN last.locals.gunshotScore
  ELSE IF YAMNET_CLASSES[i] = "Chainsaw" THEN last.locals.chainsawScore
  ELSE last.in.out.scores[i]

\* ------------------------------------------------------------------------
\* C15: after a completed inference cycle the published results are the (up
\* to) 5 highest-scoring taxonomy entries in non-increasing score order, the
\* two category entries with their fused scores and the others with their
\* raw classifier scores; the list is not empty if there is a labelled score.
\* ------------------------------------------------------------------------
C15_Ranking ==
  Cycle =>
    LET top == state.results
        n == Min(Len(last.in.out.scores), Len(YAMNET_CLASSES))
        Index(k) == CHOOSE i \in 1..n : YAMNET_CLASSES[i] = BaseLabel(top[k].label)
        shown == {Index(k) : k \in 1..Len(top)}
    IN /\ Len(top) = Min(5, n)
       /\ \A k \in 1..Len(top) :
            /\ \E i \in 1..n : YAMNET_CLASSES[i] = BaseLabel(top[k].label)
            /\ top[k].score = EntryScore(Index(k))
       /\ Cardinality(shown) = Len(top)
       /\ \A k \in 1..(Len(top) - 1) : top[k].score >= top[k + 1].score
       /\ \A i \in (1..n) \ shown, k \in 1..Len(top) :
            EntryScore(i) <= top[k].score

\* a cycle over the whole taxonomy whose verified gunshot entry ranks first
\* and whose two lowest entries are cut
C15_Witness ==
  /\ Cycle
  /\ Len(last.in.out.scores) = Len(YAMNET_CLASSES)
  /\ Len(state.results) = 5
  /\ state.results[1] = [label |-> "Gunshot (Verified)", score |-> 100]
  /\ state.results[5].score > 0

\* ------------------------------------------------------------------------
\* C16: when a category has no prototypes (its list is empty or no set was
\* supplied) the category's published score is its heuristic score after
\* veto, clamped to [0, 1], and its entry never carries the verified label.
\* ------------------------------------------------------------------------
C16_NoPrototypes ==
  Cycle =>
    /\ ~last.used.present \/ last.used.gunshots = <<>> =>
         /\ last.locals.gunshotScore =
              Min(Max(last.locals.vetoedGunshot, 0), 100)
         /\ Entries(last.locals.allResults, "Gunshot (Verified)") = {}
         /\ Entries(state.results, "Gunshot (Verified)") = {}
    /\ ~last.used.present \/ last.used.chainsaws = <<>> =>
         /\ last.locals.chainsawScore =
              Min(Max(ScoreOf(last.in.out.scores, CHAINSAW_RELATED), 0), 100)
         /\ Entries(last.locals.allResults, "Chainsaw (Verified)") = {}
         /\ Entries(state.results, "Chainsaw (Verified)") = {}

\* a set with chainsaw prototypes only: the chainsaw entry is verified, the
\* gunshot entry keeps its heuristic score and label
C16_Witness ==
  /\ Cycle
  /\ last.used.present
  /\ last.used.gunshots = <<>>
  /\ last.in.out.kind = "paired"
  /\ BestChainsaw > 75
  /\ last.locals.gunshotScore = 60
  /\ Entries(state.results, "Gunshot, gunfire") # {}
  /\ Entries(state.results, "Chainsaw (Verified)") # {}

\* ------------------------------------------------------------------------
\* The resampler on its own: buffers of every length at every pair of rates
\* ------------------------------------------------------------------------
ResampleRates == {8000, 11025, 16000, 22050, 44100, 48000}
ResampleLengths == 0..(BUFFER_SIZE + 2)

InitResample == InitWith(SessionRates, {<<>>}, {NoPrototypes})

\* one call downsampleBuffer(buffer, sourceRate, targetRate); the samples of
\* the buffer carry their position as value
Resample(n, sourceRate, targetRate) ==
  /\ last' = [op |-> "resample",
              buffer |-> [i \in 1..n |-> i],
              sourceRate |-> sourceRate,
              targetRate |-> targetRate,
              result |-> downsampleBuffer([i \in 1..n |-> i], sourceRate,
                                          targetRate)]
  /\ UNCHANGED <<state, modelPromiseRef, modelRef, ctxState, sampleRate,
                 streamRef, processorRef, analyserRef, mountPc, loaderPc,
                 loadsStarted, call, callsMade, trackLive, proc, prototypes,
                 tape, fed, rawCount, chunks, stopped, thrown>>
  /\ UNCHANGED <<enrollVars, logVars>>

NextResample ==
  \E n \in ResampleLengths, sourceRate \in ResampleRates,
     targetRate \in ResampleRates : Resample(n, sourceRate, targetRate)

SpecResample == InitResample /\ [][NextResample]_vars

\* ------------------------------------------------------------------------
\* C17: downsampleBuffer on N samples returns round(N * targetRate /
\* sourceRate) samples, the i-th being input[floor(i * sourceRate /
\* targetRate)] with that index inside the input; with equal rates it
\* returns the input unchanged.
\* ------------------------------------------------------------------------
C17_Resampler ==
  last.op = "resample" =>
    LET N == Len(last.buffer)
        s == last.sourceRate
        t == last.targetRate
        L == Len(last.result)
    IN /\ s = t => last.result = last.buffer
       /\ 2 * L * s <= 2 * N * t + s
       /\ 2 * N * t + s < 2 * (L + 1) * s
       /\ \A i \in 0..(L - 1) :
            \E j \in 0..(N - 1) :
               /\ j * t <= i * s
               /\ i * s < (j + 1) * t
               /\ last.result[i + 1] = last.buffer[j + 1]

\* 7 samples from 44100 Hz to 16000 Hz: 2.54 rounds up to 3 samples
C17_Witness ==
  /\ last.op = "resample"
  /\ last.sourceRate = 44100
  /\ last.targetRate = 16000
  /\ Len(last.buffer) = 7
  /\ last.result = <<1, 3, 6>>

\* ------------------------------------------------------------------------
\* C18: before the veto the gunshot score is the maximum, not the sum, of
\* the classifier scores of the gunshot-related labels, and the chainsaw
\* score likewise of the chainsaw-related labels; each is 0 when none of its
\* labels is among the scores.
\* ------------------------------------------------------------------------
C18_MaxAggregation ==
  Cycle =>
    LET scores == last.in.out.scores
        n == Min(Len(scores), Len(YAMNET_CLASSES))
        Related(labels) == {i \in 1..n : YAMNET_CLASSES[i] \in labels}
        Holds(score, labels) ==
          /\ score = ScoreOf(scores, labels)
          /\ \A i \in Related(labels) : scores[i] <= score
          /\ Related(labels) # {} => \E i \in Related(labels) : scores[i] = score
          /\ Related(labels) = {} => score = 0
    IN /\ Holds(last.locals.heuristicGunshot, GUNSHOT_RELATED)
       /\ Holds(last.locals.heuristicChainsaw, CHAINSAW_RELATED)

\* explosion 0.7 and gunshot 0.9 in one window: the heuristic is 0.9
C18_Witness ==
  /\ Cycle
  /\ Len(last.in.out.scores) = Len(YAMNET_CLASSES)
  /\ last.in.out.scores[6] = 70
  /\ last.in.out.scores[7] = 90
  /\ last.locals.heuristicGunshot = 90
  /\ last.locals.heuristicChainsaw = 40

\* ------------------------------------------------------------------------
\* A session that is never stopped and whose chunks keep arriving.  The
\* record of what was delivered is not kept, so the run can go on for ever;
\* chunks that carry at least one resampled sample arrive again and again.
\* ------------------------------------------------------------------------
LiveRates == {16000, 32000}

InitLive == InitWith(LiveRates, {<<>>}, {NoPrototypes})

LiveChunk(p, n, out) ==
  /\ HandleChunk(p, Chunk(n, 16, 0, out))
  /\ UNCHANGED <<chunks, rawCount, fed, tape>>

\* a chunk whose resampled frame has at least one sample
PositiveChunk ==
  \E n \in ChunkLengths, out \in BufferOutputs :
     /\ Len(Downsampled(1, Chunk(n, 16, 0, out))) >= 1
     /\ LiveChunk(1, n, out)

\* a chunk whose resampled frame is empty
EmptyChunk ==
  \E n \in ChunkLengths, out \in BufferOutputs :
     /\ Len(Downsampled(1, Chunk(n, 16, 0, out))) = 0
     /\ LiveChunk(1, n, out)

NextLive ==
  \/ StartRecording(1)
  \/ \E l \in Loaders : LoaderCacheHit(l)
  \/ MediaGranted(1)
  \/ Resumed(1)
  \/ PositiveChunk
  \/ EmptyChunk

SpecLive == InitLive /\ [][NextLive]_vars /\ WF_vars(PositiveChunk)

\* ------------------------------------------------------------------------
\* C19: in a recording session that is not stopped and keeps receiving
\* chunks with at least one resampled sample, every such chunk either
\* triggers an inference or brings the counter closer to the trigger without
\* reaching SAMPLES_PER_INFERENCE, and inference is triggered again and
\* again, also after a cycle that failed.
\* ------------------------------------------------------------------------
C19_TriggersRecur ==
  /\ [][last'.op = "chunk" /\ last'.m >= 1 =>
          \/ last'.inferred
          \/ /\ proc'[last'.id].samplesCaptured >
                  proc[last'.id].samplesCaptured
             /\ proc'[last'.id].samplesCaptured < SAMPLES_PER_INFERENCE]_vars
  /\ <>(proc[1].connected) =>
       []<><<last'.op = "chunk" /\ last'.inferred>>_vars

\* a trigger reached over several chunks, after an earlier cycle published
\* results, and whose own inference throws
C19_Witness ==
  /\ last.op = "chunk"
  /\ last.inferred
  /\ last.before > 0
  /\ last.in.out.kind = "throws"
  /\ state.results # <<>>

\* ------------------------------------------------------------------------
\* C20: the error field holds the message of the latest fatal setup error.
\* As stated: an inference cycle, successful or failed, never changes the
\* error field, and the field changes only when a start succeeds or fails
\* or a load begins or fails.
\* ------------------------------------------------------------------------
SetupStep ==
  \/ \E c \in Calls : call'[c].pc # call[c].pc
  \/ \E l \in Loaders : loaderPc'[l] # loaderPc[l]

C20_AsStated ==
  [][/\ last'.op = "chunk" => state'.error = state.error
     /\ state'.error # state.error => SetupStep]_vars

\* C20 as the code has it: a failed inference cycle leaves the error field
\* alone, a successful one publishes error = null; a message is published
\* only by a start or a load that fails, and the field is cleared only by a
\* successful cycle, a start that succeeds or a load that begins.
C20_ErrorField ==
  [][/\ last'.op = "chunk" =>
          state'.error = IF last'.scored THEN NULL ELSE state.error
     /\ state'.error # state.error /\ state'.error # NULL =>
          \/ \E c \in Calls : call'[c].pc = "failed" /\ call[c].pc # "failed"
          \/ \E l \in Loaders : loaderPc'[l] # loaderPc[l]
     /\ state'.error # state.error /\ state'.error = NULL =>
          \/ last'.op = "chunk" /\ last'.scored
          \/ \E c \in Calls : call'[c].pc = "done" /\ call[c].pc # "done"
          \/ \E l \in Loaders : loaderPc'[l] # loaderPc[l]]_vars

\* the second start has failed while the first session is live, and a
\* successful cycle of the first session has published since
C20_Witness ==
  /\ call[1].pc = "done"
  /\ call[2].pc = "failed"
  /\ last.op = "chunk"
  /\ last.id = 1
  /\ last.scored
  /\ ~last.wasRecording
  /\ ~stopped
  /\ state.error = NULL

\* ------------------------------------------------------------------------
\* C23: with classifier scores in [0, 1] the gunshot score after the veto
\* is never negative: the partial veto is taken only when the gunshot score
\* is above a mimic score above 0.5, so it leaves more than 0.2, and the
\* lower clamp to 0 changes nothing.
\* ------------------------------------------------------------------------
C23_VetoNonNegative ==
  Cycle /\ (\A i \in 1..Len(last.in.out.scores) :
              last.in.out.scores[i] \in 0..ONE) =>
    LET g == last.locals.heuristicGunshot
        m == last.locals.falsePositiveScore
        v == last.locals.vetoedGunshot
        fused == Boost(last.locals.customGunshotScore, v)
    IN /\ v >= 0
       /\ v # g /\ v # 0 => m > 50 /\ g > m /\ v = g - 30 /\ v > 20
       /\ Max(fused, 0) = fused
       /\ last.locals.gunshotScore = Min(fused, ONE)

\* a cycle that takes the partial veto
C23_Witness ==
  /\ Cycle
  /\ last.locals.heuristicGunshot = 60
  /\ last.locals.falsePositiveScore = 51
  /\ last.locals.vetoedGunshot = 30
  /\ last.locals.gunshotScore = 30

\* ------------------------------------------------------------------------
\* C24: when the best gunshot-prototype similarity s is above 0.75 the
\* published gunshot score is at least min(s, 1), whatever the mimic score
\* is: the veto never suppresses a verified match.
\* ------------------------------------------------------------------------
C24_VerifiedSurvivesVeto ==
  Cycle /\ BestGunshot > 75 =>
    /\ last.locals.gunshotScore >= Min(BestGunshot, 100)
    /\ \A k \in 1..Len(state.results) :
         BaseLabel(state.results[k].label) = "Gunshot, gunfire" =>
           state.results[k].score >= Min(BestGunshot, 100)

\* a verified match in a cycle whose heuristic score the strong veto zeroed
C24_Witness ==
  /\ Cycle
  /\ BestGunshot = 80
  /\ last.locals.heuristicGunshot = 50
  /\ last.locals.falsePositiveScore = 90
  /\ last.locals.vetoedGunshot = 0
  /\ Entries(state.results, "Gunshot (Verified)") # {}

\* ------------------------------------------------------------------------
\* C25: from the moment a start request is made until it sets isRecording
\* or publishes an error, the published isLoading flag is true, however the
\* load started on mount interleaves with it.
\* ------------------------------------------------------------------------
C25_LoadingWhileStarting ==
  /\ callsMade = 1
  /\ call[1].pc \in {"awaitModel", "awaitMedia", "awaitResume"}
  /\ state.error = NULL
  => state.isLoading

\* ------------------------------------------------------------------------
\* C26: a start request that was still waiting for the model or the
\* microphone when a stop request was made does not put the session into
\* Recording afterwards: isRecording stays false and no microphone stream
\* is left open.
\* ------------------------------------------------------------------------
C26_StopCancelsStart ==
  callsMade = 1 /\ stopped => ~state.isRecording /\ ~trackLive[1]

\* ------------------------------------------------------------------------
\* C27: a stop request changes only isRecording, volume, distance and
\* direction of the published state; results, error and isLoading are left
\* as they were, so the last ranked list stays published after the stop.
\* Results are emptied only by a start request that succeeds.
\* ------------------------------------------------------------------------
C27_StopFrame ==
  [][/\ last'.op = "stop" =>
          /\ state'.results = state.results
          /\ state'.error = state.error
          /\ state'.isLoading = state.isLoading
          /\ ~state'.isRecording
          /\ state'.volume = 0 /\ state'.distance = 0 /\ state'.direction = 0
     /\ state.results # <<>> /\ state'.results = <<>> =>
          \E c \in Calls : call[c].pc # "done" /\ call'[c].pc = "done"]_vars

\* after a stop the ranked list of the last cycle, with its gunshot entry,
\* is still published
C27_Witness ==
  /\ last.op = "stop"
  /\ ~state.isRecording
  /\ PublishedZero
  /\ \E k \in 1..Len(state.results) :
       /\ BaseLabel(state.results[k].label) = "Gunshot, gunfire"
       /\ state.results[k].score > 80

\* ------------------------------------------------------------------------
\* Enrollment (useTransferLearning.enrollPrototypes)
\* ------------------------------------------------------------------------
ENROLL_ERROR == "Error: enrollment failed"

\* what yamnet.predict gives for the windows of a file: embedding frames, no
\* embeddings tensor, or an exception
Frames(frames) == [kind |-> "frames", frames |-> frames]
NoEmbeddings == [kind |-> "none", frames |-> <<>>]
PredictThrows == [kind |-> "throws", frames |-> <<>>]

\* an audio file: whether it can be read and decoded, its decoded rate and
\* length, and what the model gives for its windows
AudioFile(readable, rate, n, out) ==
  [readable |-> readable, sampleRate |-> rate, n |-> n, out |-> out]

\* a decoder whose failure is thrown to the caller
ProcessAudioFile_Rethrowing(file) ==
  IF file.readable
  THEN [kind |-> "waveform",
        waveform |-> downsampleBuffer([i \in 1..file.n |-> i],
                                      file.sampleRate, YAMNET_SAMPLE_RATE)]
  ELSE [kind |-> "throws", waveform |-> <<>>]

\* processAudioFile: the resampled first channel, or null when reading or
\* decoding throws
ProcessAudioFile(file) ==
  IF file.readable
  THEN [kind |-> "waveform",
        waveform |-> downsampleBuffer([i \in 1..file.n |-> i],
                                      file.sampleRate, YAMNET_SAMPLE_RATE)]
  ELSE [kind |-> "null", waveform |-> <<>>]

\* a window loop that advances by half a window
NextWindow_Overlapping(i) == i + YAMNET_INPUT_SIZE \div 2

\* i += YAMNET_INPUT_SIZE
NextWindow(i) == i + YAMNET_INPUT_SIZE

\* for (i = 0; i + YAMNET_INPUT_SIZE <= waveform.length; ...) subarray(i, i + W)
RECURSIVE WindowsFrom(_, _)
WindowsFrom(waveform, i) ==
  IF i + YAMNET_INPUT_SIZE <= Len(waveform)
  THEN <<SubSeq(waveform, i + 1, i + YAMNET_INPUT_SIZE)>>
       \o WindowsFrom(waveform, NextWindow(i))
  ELSE <<>>

RECURSIVE SumFrames(_, _, _)
SumFrames(frames, k, f) ==
  IF f = 0 THEN 0 ELSE SumFrames(frames, k, f - 1) + frames[f][k]

\* average pooling over the frames
AvgPool(frames) ==
  [k \in 1..Len(frames[1]) |-> SumFrames(frames, k, Len(frames)) \div Len(frames)]

\* the prototype pushed for one window: pooled if several frames, normalised
Prototype(frames) ==
  IF Len(frames) > 1 THEN Normalize(AvgPool(frames)) ELSE Normalize(frames[1])

\* the continuation of one file inside processCategory
FileResult(file) ==
  LET decoded == ProcessAudioFile(file)
      windows == WindowsFrom(decoded.waveform, 0)
  IN [kind |-> decoded.kind,
      L |-> Len(decoded.waveform),
      windows |-> windows,
      aborted |-> \/ decoded.kind = "throws"
                  \/ windows # <<>> /\ file.out.kind = "throws",
      added |-> IF file.out.kind = "frames"
                THEN [k \in 1..Len(windows) |-> Prototype(file.out.frames)]
                ELSE <<>>]

\* the published state after the catch of enrollPrototypes
EnrollFailed(st) == [st EXCEPT !.error = ENROLL_ERROR, !.isEnrolling = FALSE]

\* enrollPrototypes(dataset) up to its first await
EnrollStarted(h, dataset) ==
  /\ tl' = [tl EXCEPT ![h] = [@ EXCEPT !.isEnrolling = TRUE, !.progress = 0,
                                       !.error = NULL]]
  /\ enroll' = [enroll EXCEPT ![h] =
       [NoRun EXCEPT !.pc = "model", !.id = runsMade + 1,
                     !.dataset = dataset]]
  /\ runsMade' = runsMade + 1

EnrollPrototypes(h, dataset) ==
  /\ runsMade < MaxRuns
  /\ enroll[h].pc = "idle"
  /\ EnrollStarted(h, dataset)
  /\ last' = Op("other")
  /\ UNCHANGED <<state, modelPromiseRef, modelRef, ctxState, sampleRate,
                 streamRef, processorRef, analyserRef, mountPc, loaderPc,
                 loadsStarted, call, callsMade, trackLive, proc, prototypes,
                 tape, fed, rawCount, chunks, stopped, thrown>>
  /\ UNCHANGED <<auto, logVars>>

\* the model is there (from the cache or downloaded): the gunshot files are
\* handed to processCategory
EnrollModelReady(h) ==
  /\ enroll[h].pc = "model"
  /\ enroll' = [enroll EXCEPT ![h] =
       [@ EXCEPT !.pc = "files", !.category = "gunshots",
                 !.left = DOMAIN enroll[h].dataset.gunshots]]
  /\ last' = Op("other")
  /\ UNCHANGED <<state, modelPromiseRef, modelRef, ctxState, sampleRate,
                 streamRef, processorRef, analyserRef, mountPc, loaderPc,
                 loadsStarted, call, callsMade, trackLive, proc, prototypes,
                 tape, fed, rawCount, chunks, stopped, thrown>>
  /\ UNCHANGED <<tl, runsMade, auto, logVars>>

\* neither the cache nor the download gives a model: the outer catch
EnrollModelFailed(h) ==
  /\ enroll[h].pc = "model"
  /\ tl' = [tl EXCEPT ![h] = EnrollFailed(@)]
  /\ enroll' = [enroll EXCEPT ![h] = NoRun]
  /\ last' = [op |-> "enrollFailed", hook |-> h, id |-> enroll[h].id,
              before |-> tl[h].prototypes]
  /\ UNCHANGED <<state, modelPromiseRef, modelRef, ctxState, sampleRate,
                 streamRef, processorRef, analyserRef, mountPc, loaderPc,
                 loadsStarted, call, callsMade, trackLive, proc, prototypes,
                 tape, fed, rawCount, chunks, stopped, thrown>>
  /\ UNCHANGED <<runsMade, auto, logVars>>

\* the files of the category being processed
CategoryFiles(run) ==
  IF run.category = "gunshots" THEN run.dataset.gunshots
  ELSE run.dataset.chainsaws

\* one file of the current category is decoded and its windows are embedded
ProcessFile(h, f) ==
  /\ enroll[h].pc = "files"
  /\ f \in enroll[h].left
  /\ LET file == CategoryFiles(enroll[h])[f]
         r == FileResult(file)
     IN /\ IF r.aborted
           THEN /\ tl' = [tl EXCEPT ![h] = EnrollFailed(@)]
                /\ enroll' = [enroll EXCEPT ![h] = NoRun]
           ELSE /\ tl' = tl
                /\ enroll' = [enroll EXCEPT ![h] =
                     [@ EXCEPT
                        !.left = @ \ {f},
                        !.gunshotEmbeddings =
                           IF enroll[h].category = "gunshots"
                           THEN @ \o r.added ELSE @,
                        !.chainsawEmbeddings =
                           IF enroll[h].category = "chainsaws"
                           THEN @ \o r.added ELSE @]]
        /\ last' = [op |-> "file", hook |-> h, id |-> enroll[h].id,
                    file |-> file, result |-> r,
                    before |-> tl[h].prototypes]
  /\ UNCHANGED <<state, modelPromiseRef, modelRef, ctxState, sampleRate,
                 streamRef, processorRef, analyserRef, mountPc, loaderPc,
                 loadsStarted, call, callsMade, trackLive, proc, prototypes,
                 tape, fed, rawCount, chunks, stopped, thrown>>
  /\ UNCHANGED <<runsMade, auto, logVars>>

\* a publication that appends the new lists to the published ones
Enrolled_Merging(st, enrolled) ==
  [st EXCEPT !.progress = 100,
             !.prototypes = Prototypes(@.gunshots \o enrolled.gunshots,
                                       @.chainsaws \o enrolled.chainsaws),
             !.isEnrolling = FALSE]

\* the published state after setProgress(100), setPrototypes(enrolled) and
\* setIsEnrolling(false)
Enrolled(st, enrolled) ==
  [st EXCEPT !.progress = 100, !.prototypes = enrolled, !.isEnrolling = FALSE]

\* Promise.all of the current category resolves: after the gunshots the
\* chainsaw files are handed to processCategory, after the chainsaws both
\* lists are published together
CategoryDone(h) ==
  /\ enroll[h].pc = "files"
  /\ enroll[h].left = {}
  /\ IF enroll[h].category = "gunshots"
     THEN /\ tl' = [tl EXCEPT ![h].progress = 50]
          /\ enroll' = [enroll EXCEPT ![h] =
               [@ EXCEPT !.category = "chainsaws",
                         !.left = DOMAIN enroll[h].dataset.chainsaws]]
          /\ last' = Op("other")
     ELSE /\ tl' = [tl EXCEPT ![h] =
               Enrolled(@, Prototypes(enroll[h].gunshotEmbeddings,
                                      enroll[h].chainsawEmbeddings))]
          /\ enroll' = [enroll EXCEPT ![h] = NoRun]
          /\ last' = [op |-> "enrolled", hook |-> h, id |-> enroll[h].id,
                      dataset |-> enroll[h].dataset,
                      before |-> tl[h].prototypes]
  /\ UNCHANGED <<state, modelPromiseRef, modelRef, ctxState, sampleRate,
                 streamRef, processorRef, analyserRef, mountPc, loaderPc,
                 loadsStarted, call, callsMade, trackLive, proc, prototypes,
                 tape, fed, rawCount, chunks, stopped, thrown>>
  /\ UNCHANGED <<runsMade, auto, logVars>>

\* ------------------------------------------------------------------------
\* Enrollment runs on datasets of readable and unreadable files of every
\* length
\* ------------------------------------------------------------------------
EB2 == <<10, 10, 10, 0, 10>>

FileLengths == 0..(2 * YAMNET_INPUT_SIZE + 1)

EnrollFiles ==
  {AudioFile(TRUE, rate, n, Frames(<<EA2>>)) :
     rate \in {16000, 32000}, n \in FileLengths}
  \cup {AudioFile(TRUE, 16000, 2 * YAMNET_INPUT_SIZE, out) :
          out \in {Frames(<<EA2, EB2>>), NoEmbeddings, PredictThrows}}
  \cup {AudioFile(TRUE, 16000, 1, PredictThrows),
        AudioFile(FALSE, 16000, 0, Frames(<<EA2>>))}

ChainsawFiles ==
  {AudioFile(TRUE, 16000, YAMNET_INPUT_SIZE, Frames(<<EB2>>)),
   AudioFile(FALSE, 16000, 0, Frames(<<EB2>>))}

EnrollDatasets ==
  {[gunshots |-> g, chainsaws |-> c] :
     g \in {<<>>} \cup {<<f>> : f \in EnrollFiles}
           \cup {<<AudioFile(FALSE, 16000, 0, Frames(<<EA2>>)), f>> :
                   f \in EnrollFiles},
     c \in {<<>>} \cup {<<f>> : f \in ChainsawFiles}}

NextEnroll ==
  \/ \E ds \in EnrollDatasets : EnrollPrototypes(PANEL_HOOK, ds)
  \/ EnrollModelReady(PANEL_HOOK)
  \/ EnrollModelFailed(PANEL_HOOK)
  \/ \E f \in 1..2 : ProcessFile(PANEL_HOOK, f)
  \/ CategoryDone(PANEL_HOOK)

SpecEnroll == Init /\ [][NextEnroll]_vars

\* the waveform the decoder gives for a readable file
Waveform(file) ==
  downsampleBuffer([i \in 1..file.n |-> i], file.sampleRate,
                   YAMNET_SAMPLE_RATE)

\* the number of prototypes the files of a list contribute
RECURSIVE Contributed(_)
Contributed(files) ==
  IF files = <<>> THEN 0
  ELSE Len(FileResult(Head(files)).added) + Contributed(Tail(files))

Unreadable(files) == \A f \in DOMAIN files : ~files[f].readable

\* the embeddings array of the category a run is processing
CategoryEmbeddings(run) ==
  IF run.category = "gunshots" THEN run.gunshotEmbeddings
  ELSE run.chainsawEmbeddings

MANIFEST_ERROR == "Error: Failed to load dataset manifest."
NO_FILES_ERROR == "Error: Could not load any audio files."

\* Math.round(num / den) for num >= 0
RoundDiv(num, den) == (2 * num + den) \div (2 * den)

\* a loadDataset that leaves the manifest flag set
AfterLoadDataset_Skipped(a) == [a EXCEPT !.pc = "done"]

\* finally { setIsLoadingManifest(false) }
AfterLoadDataset(a) == [a EXCEPT !.isLoadingManifest = FALSE, !.pc = "done"]

\* catch (err) { setAutoLoadError(String(err)) } finally { ... }
AutoFailed(a, message) == AfterLoadDataset([a EXCEPT !.autoLoadError = message])

\* the file the server holds under each name of the manifest
FileOf(name) ==
  IF name = 1 THEN AudioFile(FALSE, 16000, 0, Frames(<<EA2>>))
  ELSE IF name = 2
       THEN AudioFile(TRUE, 16000, 2 * YAMNET_INPUT_SIZE, Frames(<<EA2>>))
       ELSE AudioFile(TRUE, 16000, YAMNET_INPUT_SIZE, PredictThrows)

\* file lists a manifest can give; the empty one also stands for a manifest
\* without a usable gunshots array
Manifests == {<<>>, <<2>>, <<1, 2>>, <<2, 1, 3>>}

\* the manifest cannot be fetched or parsed
ManifestFailed ==
  /\ auto.pc = "manifest"
  /\ auto' = AutoFailed(auto, MANIFEST_ERROR)
  /\ last' = Op("other")
  /\ UNCHANGED <<state, modelPromiseRef, modelRef, ctxState, sampleRate,
                 streamRef, processorRef, analyserRef, mountPc, loaderPc,
                 loadsStarted, call, callsMade, trackLive, proc, prototypes,
                 tape, fed, rawCount, chunks, stopped, thrown>>
  /\ UNCHANGED <<tl, enroll, runsMade, logVars>>

\* the manifest is read: without files loadDataset returns, otherwise the
\* first batch is requested
ManifestLoaded(fileList) ==
  /\ auto.pc = "manifest"
  /\ auto' = IF Len(fileList) = 0
             THEN AfterLoadDataset(auto)
             ELSE [auto EXCEPT !.pc = "fetching", !.fileList = fileList]
  /\ last' = Op("other")
  /\ UNCHANGED <<state, modelPromiseRef, modelRef, ctxState, sampleRate,
                 streamRef, processorRef, analyserRef, mountPc, loaderPc,
                 loadsStarted, call, callsMade, trackLive, proc, prototypes,
                 tape, fed, rawCount, chunks, stopped, thrown>>
  /\ UNCHANGED <<tl, enroll, runsMade, logVars>>

\* the files of a batch that were fetched, in manifest order
RECURSIVE Fetched(_, _, _, _)
Fetched(fileList, from, to, oks) ==
  IF from > to THEN <<>>
  ELSE (IF from \in oks THEN <<FileOf(fileList[from])>> ELSE <<>>)
       \o Fetched(fileList, from + 1, to, oks)

\* Promise.all of one batch resolves; after the last batch either nothing
\* was loaded (throw) or enrollPrototypes is called
FetchBatch(oks) ==
  /\ auto.pc = "fetching"
  /\ LET len == Len(auto.fileList)
         to == Min(auto.i + BATCH_SIZE, len)
         loaded == auto.loadedFiles
                   \o Fetched(auto.fileList, auto.i + 1, to, oks)
         progressed == [auto EXCEPT
                          !.loadedFiles = loaded,
                          !.fetchProgress = RoundDiv(auto.i * 50, len),
                          !.i = auto.i + BATCH_SIZE]
     IN /\ oks \subseteq (auto.i + 1)..to
        /\ IF auto.i + BATCH_SIZE < len
           THEN /\ auto' = progressed
                /\ UNCHANGED <<tl, enroll, runsMade>>
           ELSE IF Len(loaded) = 0
                THEN /\ auto' = AutoFailed(progressed, NO_FILES_ERROR)
                     /\ UNCHANGED <<tl, enroll, runsMade>>
                ELSE /\ auto' = [progressed EXCEPT !.fetchProgress = 50,
                                                   !.pc = "enrolling"]
                     /\ EnrollStarted(AUTO_HOOK,
                          [gunshots |-> loaded, chainsaws |-> <<>>])
  /\ last' = Op("other")
  /\ UNCHANGED <<state, modelPromiseRef, modelRef, ctxState, sampleRate,
                 streamRef, processorRef, analyserRef, mountPc, loaderPc,
                 loadsStarted, call, callsMade, trackLive, proc, prototypes,
                 tape, fed, rawCount, chunks, stopped, thrown>>
  /\ UNCHANGED logVars

\* await enrollPrototypes(...) returns, whether enrollment succeeded or not
AutoEnrollReturned ==
  /\ auto.pc = "enrolling"
  /\ enroll[AUTO_HOOK].pc = "idle"
  /\ auto' = AfterLoadDataset(auto)
  /\ last' = Op("other")
  /\ UNCHANGED <<state, modelPromiseRef, modelRef, ctxState, sampleRate,
                 streamRef, processorRef, analyserRef, mountPc, loaderPc,
                 loadsStarted, call, callsMade, trackLive, proc, prototypes,
                 tape, fed, rawCount, chunks, stopped, thrown>>
  /\ UNCHANGED <<tl, enroll, runsMade, logVars>>

\* isAutoEnrolling: isEnrolling || isLoadingManifest
isAutoEnrolling == tl[AUTO_HOOK].isEnrolling \/ auto.isLoadingManifest

\* twice totalProgress: fetchProgress, 50 + progress / 2 or 100
twiceTotalProgress ==
  IF auto.isLoadingManifest THEN 2 * auto.fetchProgress
  ELSE IF tl[AUTO_HOOK].isEnrolling THEN 100 + tl[AUTO_HOOK].progress
       ELSE 200

\* Math.min(100, Math.round(totalProgress))
autoEnrollProgress == Min(100, RoundDiv(twiceTotalProgress, 2))

\* autoLoadError || error
autoEnrollError ==
  IF auto.autoLoadError # NULL THEN auto.autoLoadError
  ELSE tl[AUTO_HOOK].error

\* the effect on mount with every awaited promise settling
NextAuto ==
  \/ ManifestFailed
  \/ \E fileList \in Manifests : ManifestLoaded(fileList)
  \/ \E oks \in SUBSET (1..3) : FetchBatch(oks)
  \/ EnrollModelReady(AUTO_HOOK)
  \/ EnrollModelFailed(AUTO_HOOK)
  \/ \E f \in 1..3 : ProcessFile(AUTO_HOOK, f)
  \/ CategoryDone(AUTO_HOOK)
  \/ AutoEnrollReturned

SpecAuto == Init /\ [][NextAuto]_vars /\ WF_vars(NextAuto)

\* ------------------------------------------------------------------------
\* C29: auto-enrollment always finishes: whether the manifest fetch fails,
\* the manifest lists no gunshots, every file fetch fails, enrollment fails
\* or enrollment succeeds, isAutoEnrolling eventually becomes false; and
\* autoEnrollProgress is an integer in [0, 100] in every state.
\* ------------------------------------------------------------------------
C29_AutoEnrollFinishes ==
  /\ [](autoEnrollProgress \in 0..100)
  /\ <>[](~isAutoEnrolling)

\* auto-enrollment has returned from a successful enrollment
C29_Witness ==
  /\ auto.pc = "done"
  /\ ~isAutoEnrolling
  /\ autoEnrollProgress = 100
  /\ autoEnrollError = NULL
  /\ tl[AUTO_HOOK].prototypes.present
  /\ Len(tl[AUTO_HOOK].prototypes.gunshots) = 2

\* ------------------------------------------------------------------------
\* The component: enrolled prototypes reach the classifier hook
\* ------------------------------------------------------------------------
\* useEffect(() => { if (autoPrototypes) setPrototypes(autoPrototypes) },
\* [autoPrototypes]): runs when autoPrototypes has changed
SyncAutoPrototypes ==
  /\ tl[AUTO_HOOK].prototypes # auto.seen
  /\ auto' = [auto EXCEPT !.seen = tl[AUTO_HOOK].prototypes]
  /\ prototypes' = IF tl[AUTO_HOOK].prototypes.present
                   THEN tl[AUTO_HOOK].prototypes ELSE prototypes
  /\ last' = Op("other")
  /\ UNCHANGED <<state, modelPromiseRef, modelRef, ctxState, sampleRate,
                 streamRef, processorRef, analyserRef, mountPc, loaderPc,
                 loadsStarted, call, callsMade, trackLive, proc, tape, fed,
                 rawCount, chunks, stopped, thrown>>
  /\ UNCHANGED <<tl, enroll, runsMade, logVars>>

\* handlePrototypesEnrolled(enrolled): setPrototypes(enrolled)
HandlePrototypesEnrolled(enrolled) ==
  /\ enrolled.present
  /\ enrolled # prototypes
  /\ prototypes' = enrolled
  /\ last' = Op("other")
  /\ UNCHANGED <<state, modelPromiseRef, modelRef, ctxState, sampleRate,
                 streamRef, processorRef, analyserRef, mountPc, loaderPc,
                 loadsStarted, call, callsMade, trackLive, proc, tape, fed,
                 rawCount, chunks, stopped, thrown>>
  /\ UNCHANGED <<enrollVars, logVars>>

EC2 == <<8, 8, 8, 8, 12>>
ED2 == <<10, 10, 8, 6, 10>>
EZ2 == <<0, 0, 0, 0, 20>>

\* the datasets the training panel enrolls: two with vectors of their own
\* and one whose enrollment fails
PanelDatasets ==
  {[gunshots |-> <<AudioFile(TRUE, 16000, 2 * YAMNET_INPUT_SIZE,
                             Frames(<<EC2>>))>>,
    chainsaws |-> <<AudioFile(TRUE, 16000, YAMNET_INPUT_SIZE,
                              Frames(<<EB2>>))>>],
   [gunshots |-> <<AudioFile(FALSE, 16000, 0, Frames(<<ED2>>)),
                   AudioFile(TRUE, 16000, YAMNET_INPUT_SIZE,
                             Frames(<<ED2>>))>>,
    chainsaws |-> <<AudioFile(TRUE, 16000, YAMNET_INPUT_SIZE,
                              Frames(<<EZ2>>))>>],
   [gunshots |-> <<AudioFile(TRUE, 16000, YAMNET_INPUT_SIZE,
                             Frames(<<ED2>>))>>,
    chainsaws |-> <<AudioFile(TRUE, 16000, YAMNET_INPUT_SIZE,
                              PredictThrows)>>]}

SwapManifests == {<<2>>, <<3>>}

\* auto-enrollment, panel enrollments, and a session on a running audio
\* context that starts at any moment and runs inference cycles
NextSwap ==
  \/ \E fileList \in SwapManifests : ManifestLoaded(fileList)
  \/ \E oks \in {{1}} : FetchBatch(oks)
  \/ \E ds \in PanelDatasets : EnrollPrototypes(PANEL_HOOK, ds)
  \/ \E h \in Hooks : EnrollModelReady(h)
  \/ \E h \in Hooks : EnrollModelFailed(h)
  \/ \E h \in Hooks, f \in 1..2 : ProcessFile(h, f)
  \/ \E h \in Hooks : CategoryDone(h)
  \/ AutoEnrollReturned
  \/ SyncAutoPrototypes
  \/ HandlePrototypesEnrolled(tl[PANEL_HOOK].prototypes)
  \/ StartRecording(1)
  \/ \E l \in Loaders : LoaderCacheHit(l)
  \/ MediaGranted(1)
  \/ LiveChunk(1, BUFFER_SIZE, Output(GunScores, EA2))

InitSwap == InitWith({16000}, {<<>>}, {NoPrototypes}) /\ ctxState = "running"

SpecSwap == InitSwap /\ [][NextSwap]_vars

\* the vectors each enrollment of the runs above can produce
Origins == {{EA}, {EC, EB}, {ED, EZ}}

Vectors(set) ==
  {set.gunshots[i] : i \in DOMAIN set.gunshots}
  \cup {set.chainsaws[i] : i \in DOMAIN set.chainsaws}

\* every vector of the set comes from one and the same enrollment
Whole(set) == \E o \in Origins : Vectors(set) \subseteq o

LOG_MIN_CONFIDENCE == 80      \* threatDetected.score > 0.8

\* the labels of the model whose lower-case form includes 'gunshot' or
\* 'chainsaw'
ThreatLabels ==
  {"Gunshot, gunfire", "Gunshot (Verified)", "Chainsaw", "Chainsaw (Verified)"}

\* results.find(r => (label includes ...) && r.score > sensitivity)
RECURSIVE FindThreat(_, _)
FindThreat(results, threshold) ==
  IF results = <<>> THEN NoThreat
  ELSE IF Head(results).label \in ThreatLabels
          /\ Head(results).score > threshold
       THEN [found |-> TRUE, label |-> Head(results).label,
             score |-> Head(results).score]
       ELSE FindThreat(Tail(results), threshold)

\* a cooldown test that lets the cooldown itself through
CooledDown_Inclusive(time, lastLogTime) == time - lastLogTime >= LOG_COOLDOWN

\* now - lastLogTimeRef.current > 5000
CooledDown(time, lastLogTime) == time - lastLogTime > LOG_COOLDOWN

\* a render followed by the logging effect: threatDetected is looked up in
\* the published results and, if it passes both tests, logged at the front
LoggingEffect ==
  /\ LET threat == FindThreat(state.results, sensitivity)
     IN /\ threatDetected' = threat
        /\ IF /\ threat.found
              /\ CooledDown(now, lastLogTimeRef)
              /\ threat.score > LOG_MIN_CONFIDENCE
           THEN /\ lastLogTimeRef' = now
                /\ history' = <<[label |-> threat.label,
                                 confidence |-> threat.score,
                                 at |-> now]>> \o history
           ELSE UNCHANGED <<lastLogTimeRef, history>>
  /\ last' = Op("other")
  /\ UNCHANGED <<state, modelPromiseRef, modelRef, ctxState, sampleRate,
                 streamRef, processorRef, analyserRef, mountPc, loaderPc,
                 loadsStarted, call, callsMade, trackLive, proc, prototypes,
                 tape, fed, rawCount, chunks, stopped, thrown>>
  /\ UNCHANGED <<enrollVars, sensitivity, now>>

\* the sensitivity slider is moved
SetSensitivity(value) ==
  /\ value # sensitivity
  /\ sensitivity' = value
  /\ last' = Op("other")
  /\ UNCHANGED <<state, modelPromiseRef, modelRef, ctxState, sampleRate,
                 streamRef, processorRef, analyserRef, mountPc, loaderPc,
                 loadsStarted, call, callsMade, trackLive, proc, prototypes,
                 tape, fed, rawCount, chunks, stopped, thrown>>
  /\ UNCHANGED <<enrollVars, threatDetected, history, lastLogTimeRef, now>>

\* time passes: Date.now() gives a later reading
Tick(time) ==
  /\ time > now
  /\ now' = time
  /\ last' = Op("other")
  /\ UNCHANGED <<state, modelPromiseRef, modelRef, ctxState, sampleRate,
                 streamRef, processorRef, analyserRef, mountPc, loaderPc,
                 loadsStarted, call, callsMade, trackLive, proc, prototypes,
                 tape, fed, rawCount, chunks, stopped, thrown>>
  /\ UNCHANGED <<enrollVars, sensitivity, threatDetected, history,
                 lastLogTimeRef>>

Sensitivities == {5, 30, 85, 95}

ChainsawScores == Scores(5, 0, 0, 85, 0, 50)

LogOutputs ==
  {Output(GunScores, EA2), ScoresOnly(QuietScores), ScoresOnly(ChainsawScores)}

\* a session on a running audio context whose published results are
\* watched by the logging effect
NextLog ==
  \/ StartRecording(1)
  \/ \E l \in Loaders : LoaderCacheHit(l)
  \/ MediaGranted(1)
  \/ \E out \in LogOutputs : LiveChunk(1, BUFFER_SIZE, out)
  \/ StopRecording
  \/ LoggingEffect
  \/ \E value \in Sensitivities : SetSensitivity(value)
  \/ \E time \in 0..MaxTime : Tick(time)

InitLogging ==
  /\ InitWith({16000}, {<<>>}, {Prototypes(<<EA>>, <<>>)})
  /\ ctxState = "running"

SpecLog == InitLogging /\ [][NextLog]_vars

=============================================================================
